---- MODULE Spec2Model ----
(***************************************************************************)
(* Model of the inbound-client merge engine of xui_HUB (src/bot.py).       *)
(*                                                                         *)
(* The engine is the shell script returned by make_merge_script() (lines   *)
(* 128-250): a TABLE branch (sqlite3 CLI, lines 142-171) and a JSON branch *)
(* (embedded python3 program, lines 173-249).  One run of the script is a  *)
(* process whose position is pc; the database is the clients table and the *)
(* settings column of the inbounds table.                                  *)
(*                                                                         *)
(* Specifications: Spec (a run of the script is one step, then the same    *)
(* call again), SpecSteps (the python program statement by statement),     *)
(* SpecCall (merge_confirm, lines 1116-1206, from the operator's OK to its *)
(* last message, with the script's tool checks, backup copy, schema probes *)
(* and strategy choice as steps), SpecKey (client_key on pairs of          *)
(* records), SpecFind (FIND_DB_CMD on a file system), SpecRace (the python *)
(* program beside another writer of the database), SpecConv (the merge     *)
(* conversation, lines 1040-1206, beside the other handlers that share     *)
(* context.user_data), SpecBackup (conv_backup, lines 1231-1658: export    *)
(* and the two restores) and SpecStore (the operator's bucket of           *)
(* store.json under the add and edit conversations and del_server, lines   *)
(* 578-1036).                                                              *)
(***************************************************************************)
EXTENDS Integers, Sequences, FiniteSets, TLC

VARIABLES
    hasClients,   \* sqlite_master holds a table named clients (line 140)
    clients,      \* committed rows of the clients table, in rowid order
    settings,     \* committed settings cell of every inbounds row
    pending,      \* the uncommitted UPDATE of the python connection (line 209)
    pc,           \* position of the running script
    target_id,    \* $2 / sys.argv[2]
    src_ids,      \* $3 / sys.argv[3], parsed
    tset,         \* python: tset
    tclients,     \* python: tclients
    existing,     \* python: existing
    added,        \* python: added
    si,           \* python: index of the next sid of "for sid in src_ids"
    out,          \* the line the script prints and its exit status
    ops,          \* database statements issued by the running call, in order
    db0,          \* the committed database when the running call started
    calls,        \* number of calls started so far
    prev,         \* what the previous call printed
    hasInbounds,  \* sqlite_master holds a table named inbounds
    clientsCols,  \* columns of the clients table other than id and inbound_id
    inboundsCols, \* columns of the inbounds table that can hold the settings
    target_port,  \* merge_confirm: user_data["merge"]["target_port"]
    src_ports,    \* merge_confirm: user_data["merge"]["ports"]
    missing,      \* merge_confirm: missing
    lookups,      \* ports merge_confirm has looked up, in order
    files,        \* files the call has created on the server
    steps,        \* what the script has done so far, in order
    code,         \* merge_confirm: exit status of the remote command
    reply,        \* the last message merge_confirm sent to the operator
    restarted,    \* restart_xui has been issued
    conv,         \* state of conv_merge for the operator
    user_data,    \* context.user_data of the operator
    servers,      \* ids of the operator's servers in the store
    visited,      \* states conv_merge has been in since merge_entry, in order
    contacted,    \* merge_confirm has opened an ssh connection
    fs,           \* the files named x-ui.db on the server
    sudo,         \* sudo works for the ssh user
    db_path,      \* merge_confirm: db_path
    panel,        \* what another writer has committed during the call
    text,         \* update.message.text of the last update; <<>> for a callback
    bucket,       \* the operator's bucket of store.json: servers and order
    sv,           \* state of conv_add_server for the operator
    ed,           \* state of conv_edit_server for the operator
    bk,           \* state of conv_backup for the operator
    ud,           \* the keys of context.user_data other than "merge"
    local_files,  \* the temporary files on the host of the bot
    ran,          \* what the last handler of conv_backup did
    doc           \* the file the last received document was downloaded to

\* the state of merge_confirm around the script
\* the rest of the session besides conv and user_data
botVars == <<bucket, sv, ed, bk, ud, local_files, ran, doc>>

restVars == <<servers, visited, contacted, fs, sudo, db_path, panel, text, botVars>>

\* the conversation and what it runs against
sessVars == <<conv, user_data, restVars>>

callVars == <<hasInbounds, clientsCols, inboundsCols, target_port, src_ports,
              missing, lookups, files, steps, code, reply, restarted, sessVars>>

vars == <<hasClients, clients, settings, pending, pc, target_id, src_ids, tset,
          tclients, existing, added, si, out, ops, db0, calls, prev, callVars>>

----------------------------------------------------------------------------
(* Bounds of the model *)

MaxSrc == 2      \* longest source list of a call
MaxTotal == 2    \* total weight of the settings cells at Init
MaxRows == 2     \* rows of the clients table at Init
MaxCalls == 2    \* calls in one behaviour (the second repeats the first)

\* the ids of the rows of the inbounds table
InboundIds == {1, 2, 3}

----------------------------------------------------------------------------
(* Sequence helpers *)

RECURSIVE SeqSum(_)
SeqSum(s) == IF s = <<>> THEN 0 ELSE Head(s) + SeqSum(Tail(s))

SeqsUpTo(S, n) == UNION {[1..k -> S] : k \in 0..n}

Range(s) == {s[i] : i \in DOMAIN s}

IsPrefix(p, s) == Len(p) <= Len(s) /\ SubSeq(s, 1, Len(p)) = p

----------------------------------------------------------------------------
(* JSON values.  A python str is a sequence of one-character strings, so   *)
(* that str.strip() is computed and not assumed.  Every value is a record  *)
(* [k, v] whose k names its JSON type.                                     *)

Str(chars) == [k |-> "str", v |-> chars]
Num(digits) == [k |-> "num", v |-> digits]
Dict(pairs) == [k |-> "dict", v |-> pairs]
NonDict == [k |-> "nondict", v |-> <<>>]

Whitespace == {" "}

RECURSIVE LStrip(_)
LStrip(s) == IF s # <<>> /\ Head(s) \in Whitespace THEN LStrip(Tail(s)) ELSE s

RECURSIVE RStrip(_)
RStrip(s) ==
    IF s # <<>> /\ s[Len(s)] \in Whitespace THEN RStrip(SubSeq(s, 1, Len(s) - 1)) ELSE s

\* str.strip()
Strip(s) == RStrip(LStrip(s))

\* dict.get(k): the value of attribute k, or None
None == [k |-> "none", v |-> <<>>]

RECURSIVE DictGet(_, _)
DictGet(pairs, name) ==
    IF pairs = <<>> THEN None
    ELSE IF Head(pairs)[1] = name THEN Head(pairs)[2]
    ELSE DictGet(Tail(pairs), name)

\* attribute names of the modelled records in the order sort_keys=True gives
SortedAttrs == <<"email", "flow", "id", "password", "uuid">>

RECURSIVE SortKeysFrom(_, _)
SortKeysFrom(pairs, i) ==
    IF i > Len(SortedAttrs) THEN <<>>
    ELSE LET val == DictGet(pairs, SortedAttrs[i])
         IN  (IF val = None THEN <<>> ELSE << <<SortedAttrs[i], val>> >>)
             \o SortKeysFrom(pairs, i + 1)

\* json.dumps(c, ensure_ascii=False): the pairs in the order of the dict
DumpsUnsorted(pairs) == pairs

\* json.dumps(c, sort_keys=True, ensure_ascii=False): the text is determined by
\* the attribute/value pairs in sorted attribute order
DumpsSorted(pairs) == SortKeysFrom(pairs, 1)

KeyAttrs == <<"uuid", "id", "email", "password">>

RECURSIVE ClientKeyFrom(_, _)
ClientKeyFrom(pairs, i) ==
    IF i > Len(KeyAttrs) THEN <<"raw", DumpsSorted(pairs)>>
    ELSE LET val == DictGet(pairs, KeyAttrs[i])
         IN  IF val.k = "str" /\ Strip(val.v) # <<>>
             THEN <<KeyAttrs[i], Strip(val.v)>>
             ELSE ClientKeyFrom(pairs, i + 1)

\* the loop of client_key run from the last attribute to the first
RECURSIVE ClientKeyBack(_, _)
ClientKeyBack(pairs, i) ==
    IF i < 1 THEN <<"raw", DumpsSorted(pairs)>>
    ELSE LET val == DictGet(pairs, KeyAttrs[i])
         IN  IF val.k = "str" /\ Strip(val.v) # <<>>
             THEN <<KeyAttrs[i], Strip(val.v)>>
             ELSE ClientKeyBack(pairs, i - 1)

client_key_last(c) == ClientKeyBack(c.v, Len(KeyAttrs))

\* the client entries of the modelled databases
cA == Dict(<< <<"uuid", Str(<<"a">>)>> >>)
cA2 == Dict(<< <<"email", Str(<<"x">>)>>, <<"uuid", Str(<<" ", "a", " ">>)>> >>)
cR == Dict(<< <<"uuid", Str(<<" ", " ">>)>>, <<"id", Num(<<"7">>)>>,
              <<"flow", Str(<<"f">>)>> >>)

\* the keys of these entries, computed once
KnownKeys == [c \in {cA, cA2, cR} |-> ClientKeyFrom(c.v, 1)]

\* client_key(c) of a dict c
client_key(c) == IF c \in DOMAIN KnownKeys THEN KnownKeys[c] ELSE ClientKeyFrom(c.v, 1)

----------------------------------------------------------------------------
(* Entries of the client lists of the modelled databases *)

EntryPool == {cA, cA2, cR, NonDict}

----------------------------------------------------------------------------
(* The settings cell of an inbounds row: the stored text.  k is what the   *)
(* text is (SQL NULL, the empty text, text json.loads rejects, JSON that   *)
(* is not an object, a JSON object); fmt is its layout (the panel stores   *)
(* it indented, json.dumps writes it compact); other holds the top-level   *)
(* attributes besides clients; clients is the value of "clients".          *)

Absent == [k |-> "absent", v |-> <<>>]
NotList == [k |-> "notlist", v |-> <<>>]     \* a truthy value that is no list
List(entries) == [k |-> "list", v |-> entries]

Blob(kind, fmt, other, cl) == [k |-> kind, fmt |-> fmt, other |-> other, clients |-> cl]

OtherAttrs == << <<"decryption", Str(<<"n">>)>> >>

NullBlob == Blob("null", "stored", <<>>, Absent)
EmptyBlob == Blob("empty", "stored", <<>>, Absent)
BadBlob == Blob("bad", "stored", <<>>, Absent)
NonObjBlob == Blob("nonobj", "stored", <<>>, Absent)
ObjBlob(cl) == Blob("obj", "stored", OtherAttrs, cl)

\* blobs that hold no client entry
OddBlobs ==
    {NullBlob, EmptyBlob, BadBlob, NonObjBlob, ObjBlob(Absent), ObjBlob(NotList)}

ListBlobs == {ObjBlob(List(l)) : l \in SeqsUpTo(EntryPool, MaxTotal)}

\* a parsed settings value (python object)
Obj(other, cl) == [k |-> "obj", other |-> other, clients |-> cl]
NonObj == [k |-> "nonobj", other |-> <<>>, clients |-> Absent]
EmptyObj == Obj(<<>>, Absent)

\* json.loads(s) of a text that parses
json_loads(b) == IF b.k = "obj" THEN Obj(b.other, b.clients) ELSE NonObj

\* load_settings(inbound_id) on the cell s: {} when the cell is NULL or empty
\* or when json.loads raises, else whatever json.loads returns
load_settings(s) ==
    IF s.k \in {"null", "empty"} THEN EmptyObj
    ELSE IF s.k = "bad" THEN EmptyObj
    ELSE json_loads(s)

\* json_dumps writing the client list alone
json_dumps_clients_only(obj) == Blob("obj", "compact", <<>>, obj.clients)

\* json.dumps(obj, ensure_ascii=False): the text written by save_settings
json_dumps(obj) == Blob("obj", "compact", obj.other, obj.clients)

\* obj.get("clients") or [], then "if not isinstance(.., list)"
ClientsOrEmpty(obj) == IF obj.clients.k = "absent" THEN List(<<>>) ELSE obj.clients

\* the set of client_key(c) of the dict entries of a list
RECURSIVE KeysOf(_)
KeysOf(l) ==
    IF l = <<>> THEN {}
    ELSE (IF Head(l).k = "dict" THEN {client_key(Head(l))} ELSE {}) \cup KeysOf(Tail(l))

\* MergeClients without existing.add(k)
RECURSIVE MergeClientsNoMark(_, _)
MergeClientsNoMark(st, rest) ==
    IF rest = <<>> THEN st
    ELSE IF Head(rest).k # "dict" \/ client_key(Head(rest)) \in st.existing
         THEN MergeClientsNoMark(st, Tail(rest))
         ELSE MergeClientsNoMark([tclients |-> Append(st.tclients, Head(rest)),
                                  existing |-> st.existing,
                                  added |-> st.added + 1], Tail(rest))

\* MergeClients walking the list from its last entry to its first
RECURSIVE MergeClientsReversed(_, _)
MergeClientsReversed(st, rest) ==
    IF rest = <<>> THEN st
    ELSE IF rest[Len(rest)].k # "dict" \/ client_key(rest[Len(rest)]) \in st.existing
         THEN MergeClientsReversed(st, SubSeq(rest, 1, Len(rest) - 1))
         ELSE MergeClientsReversed(
                  [tclients |-> Append(st.tclients, rest[Len(rest)]),
                   existing |-> st.existing \cup {client_key(rest[Len(rest)])},
                   added |-> st.added + 1], SubSeq(rest, 1, Len(rest) - 1))

\* the body of "for c in sclients" (lines 234-242) over the rest of the list
RECURSIVE MergeClients(_, _)
MergeClients(st, rest) ==
    IF rest = <<>> THEN st
    ELSE LET c == Head(rest)
         IN  IF c.k # "dict" THEN MergeClients(st, Tail(rest))
             ELSE IF client_key(c) \in st.existing THEN MergeClients(st, Tail(rest))
             ELSE MergeClients([tclients |-> Append(st.tclients, c),
                                existing |-> st.existing \cup {client_key(c)},
                                added |-> st.added + 1], Tail(rest))

----------------------------------------------------------------------------
(* The clients table (TABLE mode).  A row is [id, inbound_id, uuid, email]; *)
(* SqlNull is the SQL NULL.                                                *)

SqlNull == "NULL"
Uuids == {SqlNull, "a", "b"}

Row(i, inb, u, e) == [id |-> i, inbound_id |-> inb, uuid |-> u, email |-> e]

\* SELECT COUNT(*) FROM clients WHERE inbound_id=$TARGET_ID
CountRows(tbl, inb) == Cardinality({i \in DOMAIN tbl : tbl[i].inbound_id = inb})

\* SELECT uuid FROM clients WHERE inbound_id=$TARGET_ID
TargetUuids(tbl, inb) == {tbl[i].uuid : i \in {j \in DOMAIN tbl : tbl[j].inbound_id = inb}}

\* x NOT IN (subquery) under SQL's three-valued logic: "true", "false", "null"
NotIn(x, S) ==
    IF S = {} THEN "true"
    ELSE IF x = SqlNull THEN "null"
    ELSE IF x \in S \ {SqlNull} THEN "false"
    ELSE IF SqlNull \in S THEN "null"
    ELSE "true"

\* Qualifies without the NOT IN condition
QualifiesNoDedup(r, tbl, tgt, srcs) == r.inbound_id \in Range(srcs)

\* the WHERE clause of the INSERT ... SELECT (lines 163-164)
Qualifies(r, tbl, tgt, srcs) ==
    /\ r.inbound_id \in Range(srcs)
    /\ NotIn(r.uuid, TargetUuids(tbl, tgt)) = "true"

\* the rows the SELECT yields, in rowid order, read from the table as it was
\* before the statement wrote anything
RECURSIVE SelectFrom(_, _, _, _)
SelectFrom(tbl, i, tgt, srcs) ==
    IF i > Len(tbl) THEN <<>>
    ELSE (IF Qualifies(tbl[i], tbl, tgt, srcs) THEN <<tbl[i]>> ELSE <<>>)
         \o SelectFrom(tbl, i + 1, tgt, srcs)

SelectRows(tbl, tgt, srcs) == SelectFrom(tbl, 1, tgt, srcs)

MaxId(tbl) == IF tbl = <<>> THEN 0 ELSE tbl[Len(tbl)].id

\* the selected rows under fresh row ids, inbound_id as selected
NewRowsFromSource(tbl, tgt, sel) ==
    [i \in 1..Len(sel) |->
        [c \in DOMAIN sel[i] |-> IF c = "id" THEN MaxId(tbl) + i ELSE sel[i][c]]]

\* INSERT INTO clients (inbound_id, $COLS) SELECT $TARGET_ID, $SELS: the new
\* rows, with fresh row ids, for the selected rows sel; every column of $COLS
\* takes the value of the selected row
NewRows(tbl, tgt, sel) ==
    [i \in 1..Len(sel) |->
        [c \in DOMAIN sel[i] |->
            IF c = "id" THEN MaxId(tbl) + i
            ELSE IF c = "inbound_id" THEN tgt
            ELSE sel[i][c]]]

\* the table after "BEGIN; INSERT ...; COMMIT;" ends without error
AfterInsert(tbl, tgt, srcs) == tbl \o NewRows(tbl, tgt, SelectRows(tbl, tgt, srcs))

\* AfterFailedInsert keeping the rows written before the failure
AfterFailedInsertKeepsRows(tbl, tgt, srcs, n) ==
    tbl \o SubSeq(NewRows(tbl, tgt, SelectRows(tbl, tgt, srcs)), 1, n)

\* the table after the INSERT fails once n rows were written: the statement
\* is undone, the shell stops before COMMIT and the open transaction is rolled
\* back when the connection closes
AfterFailedInsert(tbl, tgt, srcs, n) == tbl

----------------------------------------------------------------------------
(* The embedded python program as functions of what it reads *)

\* the python variables tclients, existing, added
Locals(l, keys, n) == [tclients |-> l, existing |-> keys, added |-> n]

\* TargetLocals keeping only the dict entries of the target's list
TargetLocalsDictsOnly(obj) ==
    Locals(SelectSeq(IF ClientsOrEmpty(obj).k = "list" THEN ClientsOrEmpty(obj).v ELSE <<>>,
                     LAMBDA e : e.k = "dict"),
           KeysOf(IF ClientsOrEmpty(obj).k = "list" THEN ClientsOrEmpty(obj).v ELSE <<>>),
           0)

\* lines 212-226 on the loaded target settings obj (a dict)
TargetLocals(obj) ==
    LET cl == ClientsOrEmpty(obj)
        l == IF cl.k = "list" THEN cl.v ELSE <<>>
    IN  Locals(l, KeysOf(l), 0)

\* lines 231-242 on the loaded settings obj (a dict) of one source
SourceTurn(st, obj) ==
    LET cl == ClientsOrEmpty(obj)
    IN  IF cl.k # "list" THEN st ELSE MergeClients(st, cl.v)

\* tset["clients"] = tclients
SetClients(obj, l) == [obj EXCEPT !.clients = List(l)]

\* "for sid in src_ids" from its i-th turn on; raised says that a loaded
\* settings value was no dict, so that .get raised AttributeError
RECURSIVE SourceLoop(_, _, _, _)
LoopFrom(obj, st, cells, srcs, i) ==
    IF obj.k # "obj" THEN [raised |-> TRUE, st |-> st]
    ELSE SourceLoop(SourceTurn(st, obj), cells, srcs, i + 1)

SourceLoop(st, cells, srcs, i) ==
    IF i > Len(srcs) THEN [raised |-> FALSE, st |-> st]
    ELSE LoopFrom(load_settings(cells[srcs[i]]), st, cells, srcs, i)

\* the UPDATE of line 209 without its WHERE clause
WrittenEverywhere(obj, r, cells, tgt) ==
    IF r.raised
    THEN [raised |-> TRUE, tset |-> obj, st |-> r.st, cells |-> cells]
    ELSE [raised |-> FALSE, tset |-> SetClients(obj, r.st.tclients), st |-> r.st,
          cells |-> [i \in DOMAIN cells |-> json_dumps(SetClients(obj, r.st.tclients))]]

\* lines 244-245 after the loop ended with r: the settings cells as committed
Written(obj, r, cells, tgt) ==
    IF r.raised
    THEN [raised |-> TRUE, tset |-> obj, st |-> r.st, cells |-> cells]
    ELSE [raised |-> FALSE, tset |-> SetClients(obj, r.st.tclients), st |-> r.st,
          cells |-> [cells EXCEPT ![tgt] = json_dumps(SetClients(obj, r.st.tclients))]]

\* lines 212-246 on the loaded target settings obj
RunFrom(obj, cells, tgt, srcs) ==
    IF obj.k # "obj"
    THEN [raised |-> TRUE, tset |-> obj, st |-> Locals(<<>>, {}, 0), cells |-> cells]
    ELSE Written(obj, SourceLoop(TargetLocals(obj), cells, srcs, 1), cells, tgt)

\* lines 211-246: what the program leaves when nothing interrupts it
JsonRun(cells, tgt, srcs) == RunFrom(load_settings(cells[tgt]), cells, tgt, srcs)

----------------------------------------------------------------------------
(* Initial databases and calls *)

NoPending == [id |-> 0, blob |-> NullBlob]
NoOut == [status |-> "none", mode |-> "none", added |-> 0, before |-> 0, after |-> 0,
          fields |-> {}]
NoCells == [i \in InboundIds |-> NullBlob]

\* what a settings cell adds to the size of an initial database
Weight(b) == IF b.clients.k = "list" THEN Len(b.clients.v) ELSE 1

\* settings columns of total weight at most MaxTotal
InitSettings ==
    {f \in [InboundIds -> OddBlobs \cup ListBlobs] :
        SeqSum([i \in 1..Cardinality(InboundIds) |-> Weight(f[i])]) <= MaxTotal}

\* the email of the i-th initial row
EmailOf(i) == IF i % 2 = 1 THEN "x" ELSE "y"

\* clients tables of at most MaxRows rows, row ids 1, 2, ...
InitTables ==
    {[i \in DOMAIN t |-> Row(i, t[i][1], t[i][2], EmailOf(i))] :
        t \in SeqsUpTo(InboundIds \X Uuids, MaxRows)}

\* the source lists merge_confirm can pass: existing inbound ids, in the order
\* the operator gave their ports, repetitions and the target included
SrcLists == SeqsUpTo(InboundIds, MaxSrc) \ {<<>>}

\* the columns of the rows Row builds
RowCols == {"uuid", "email"}

\* the schema of the databases that Spec and SpecSteps merge
UsualSchema ==
    /\ hasInbounds = TRUE
    /\ clientsCols = IF hasClients THEN RowCols ELSE {}
    /\ inboundsCols = {"settings"}

\* the "merge" entry of context.user_data: count 0 and target_port 0 stand
\* for a key that is not set
Merge(sid, n, ports, tp) ==
    [has |-> TRUE, server_id |-> sid, count |-> n, ports |-> ports, target_port |-> tp]

\* context.user_data without the key "merge"
NoMerge == [has |-> FALSE, server_id |-> 0, count |-> 0, ports |-> <<>>, target_port |-> 0]

\* context.user_data after clear()
Cleared == [merge |-> NoMerge, other |-> FALSE]

\* the components of the well-known paths of FIND_DB_CMD (line 111)
WellKnown ==
    << <<"etc", "x-ui", "x-ui.db">>,
       <<"usr", "local", "x-ui", "x-ui.db">>,
       <<"opt", "x-ui", "x-ui.db">> >>

\* "panel": None of a server, and a panel; of a panel the model keeps only
\* that there is one
NoPanel == [has |-> FALSE]
APanel == [has |-> TRUE]

\* context.user_data without the key "new_server"; an ip of <<>> and an
\* ssh_port of 0 stand for a key that is not set
NoNewServer == [has |-> FALSE, ip |-> <<>>, ssh_port |-> 0, panel |-> NoPanel]

\* context.user_data without the key "new_ssh"; <<>> and 0 stand for a key
\* that is not set
NoNewSsh == [has |-> FALSE, host |-> <<>>, user |-> <<>>, port |-> 0, pass |-> <<>>]

\* no temporary file
NoFile == [prefix |-> "", n |-> 0]

\* the keys other than "merge" after clear(): <<>>, "", 0 and NoFile stand
\* for a key that is not set
NoKeys ==
    [new_server |-> NoNewServer, edit_sid |-> <<>>, edit_field |-> "",
     bk_target_server |-> 0, bk_local_file |-> NoFile, new_ssh |-> NoNewSsh]

\* a handler of conv_backup: the state the update arrived in, its text, the
\* temporary file the handler made or was given, the commands it ran on
\* servers with their results, and whether it raised
Did(handler, t, file, cmds, raised) ==
    [handler |-> handler, state |-> bk, text |-> t, file |-> file, cmds |-> cmds,
     raised |-> raised]

NoRan ==
    [handler |-> "none", state |-> "END", text |-> <<>>, file |-> NoFile, cmds |-> <<>>,
     raised |-> FALSE]

\* get_user_bucket (lines 41-45): the bucket of an operator who has stored
\* nothing
EmptyBucket == [servers |-> [k \in {} |-> NoPanel], order |-> <<>>]

\* the bot has only been started
NoBot ==
    /\ bucket = EmptyBucket
    /\ sv = "END"
    /\ ed = "END"
    /\ bk = "END"
    /\ ud = NoKeys
    /\ local_files = {}
    /\ ran = NoRan
    /\ doc = NoFile

\* no conversation is open and nothing else writes to the database
NoConversation ==
    /\ NoBot
    /\ conv = "END"
    /\ user_data = Cleared
    /\ servers = {1}
    /\ visited = <<>>
    /\ contacted = FALSE
    /\ panel = <<>>
    /\ text = <<>>

\* the database is where x-ui installs it and has not been looked for
NoSession ==
    /\ NoConversation
    /\ fs = {WellKnown[1]}
    /\ sudo = TRUE
    /\ db_path = <<>>

\* the locals of merge_confirm before it is entered
NoCallState ==
    /\ target_port = 0
    /\ src_ports = <<>>
    /\ missing = <<>>
    /\ lookups = <<>>
    /\ files = {}
    /\ steps = <<>>
    /\ code = 0
    /\ reply = "none"
    /\ restarted = FALSE

\* merge_confirm has not been entered
NoConfirm ==
    /\ NoSession
    /\ NoCallState

\* no script has run
NoRun ==
    /\ pending = NoPending
    /\ target_id = 0
    /\ src_ids = <<>>
    /\ tset = EmptyObj
    /\ tclients = <<>>
    /\ existing = {}
    /\ added = 0
    /\ si = 0
    /\ out = NoOut
    /\ ops = <<>>
    /\ calls = 0
    /\ prev = NoOut

InitCall ==
    /\ UsualSchema
    /\ NoConfirm
    /\ NoRun
    /\ db0 = [clients |-> <<>>, settings |-> NoCells]
    /\ pc = "idle"

Init ==
    /\ hasClients \in BOOLEAN
    /\ IF hasClients
       THEN clients \in InitTables /\ settings = NoCells
       ELSE clients = <<>> /\ settings \in InitSettings
    /\ InitCall

----------------------------------------------------------------------------
(* Spec: every run of the script is one step *)

\* the arguments of a run: any for the first run of a behaviour, then those of
\* the run that has just succeeded
FirstRun == pc = "idle"
SameAgain == pc = "done" /\ calls < MaxCalls

Called(t, s) ==
    /\ target_id' = t
    /\ src_ids' = s
    /\ db0' = [clients |-> clients, settings |-> settings]
    /\ calls' = calls + 1
    /\ prev' = out

OkTable(before, after) ==
    [status |-> "ok", mode |-> "TABLE", added |-> after - before,
     before |-> before, after |-> after,
     fields |-> {"OK_MODE", "OK_ADDED", "BEFORE", "AFTER"}]

OkJson(n, len) ==
    [status |-> "ok", mode |-> "JSON", added |-> n, before |-> 0, after |-> len,
     fields |-> {"OK_MODE", "OK_ADDED", "TARGET_CLIENTS", "SETTINGS_COL"}]

Failed(status, mode) == [NoOut EXCEPT !.status = status, !.mode = mode]

\* lines 157-170, every statement ending without error
TableRun(t, s) ==
    /\ Called(t, s)
    /\ clients' = AfterInsert(clients, t, s)
    /\ out' = OkTable(CountRows(clients, t), CountRows(AfterInsert(clients, t, s), t))
    /\ pc' = "done"
    /\ UNCHANGED <<hasClients, settings, pending, tset, tclients, existing, added,
                   si, ops>>

\* lines 157-165, the INSERT failing after n of the selected rows were written;
\* sqlite3 exits non-zero and "set -e" ends the script
TableRunFails(t, s) ==
    /\ Called(t, s)
    /\ \E n \in 0..Len(SelectRows(clients, t, s)) :
          clients' = AfterFailedInsert(clients, t, s, n)
    /\ out' = Failed("error", "TABLE")
    /\ pc' = "failed"
    /\ UNCHANGED <<hasClients, settings, pending, tset, tclients, existing, added,
                   si, ops>>

\* lines 173-248, nothing interrupting the python program
JsonRunStep(t, s) ==
    /\ Called(t, s)
    /\ \E r \in {JsonRun(settings, t, s)} :
          /\ settings' = r.cells
          /\ tset' = r.tset
          /\ tclients' = r.st.tclients
          /\ existing' = r.st.existing
          /\ added' = r.st.added
          /\ out' = IF r.raised THEN Failed("exception", "JSON")
                    ELSE OkJson(r.st.added, Len(r.st.tclients))
          /\ pc' = IF r.raised THEN "failed" ELSE "done"
    /\ UNCHANGED <<hasClients, clients, pending, si, ops>>

\* line 140 finds the clients table: the TABLE branch
TableMerge ==
    /\ hasClients
    /\ UNCHANGED callVars
    /\ \/ FirstRun /\ \E t \in InboundIds, s \in SrcLists : TableRun(t, s)
       \/ SameAgain /\ TableRun(target_id, src_ids)

TableMergeFails ==
    /\ hasClients
    /\ UNCHANGED callVars
    /\ \/ FirstRun /\ \E t \in InboundIds, s \in SrcLists : TableRunFails(t, s)
       \/ SameAgain /\ TableRunFails(target_id, src_ids)

\* line 140 finds no clients table: the JSON branch
JsonMerge ==
    /\ ~hasClients
    /\ UNCHANGED callVars
    /\ \/ FirstRun /\ \E t \in InboundIds, s \in SrcLists : JsonRunStep(t, s)
       \/ SameAgain /\ JsonRunStep(target_id, src_ids)

Next ==
    \/ TableMerge
    \/ TableMergeFails
    \/ JsonMerge

Spec == Init /\ [][Next]_vars

----------------------------------------------------------------------------
(* SpecSteps: the python program statement by statement, so that a run can *)
(* stop between two statements                                             *)

InitSteps ==
    /\ hasClients = FALSE
    /\ clients = <<>>
    /\ settings \in InitSettings
    /\ InitCall

\* lines 173-181: the arguments are read and the database is opened
Start ==
    /\ pc = "idle"
    /\ UNCHANGED callVars
    /\ \E t \in InboundIds, s \in SrcLists : Called(t, s)
    /\ si' = 1
    /\ pc' = "load_target"
    /\ UNCHANGED <<hasClients, clients, settings, pending, tset, tclients, existing,
                   added, out, ops>>

\* the uncaught AttributeError of .get on a value that is no dict: python
\* exits with status 1 and the connection is closed without a commit
Raise ==
    /\ out' = Failed("exception", "JSON")
    /\ pc' = "failed"
    /\ pending' = NoPending

\* lines 211-226: the target's settings are loaded and its keys collected
LoadTarget ==
    /\ pc = "load_target"
    /\ UNCHANGED callVars
    /\ ops' = Append(ops, <<"read", target_id>>)
    /\ LET obj == load_settings(settings[target_id])
       IN  IF obj.k # "obj"
           THEN /\ Raise
                /\ tset' = obj
                /\ UNCHANGED <<tclients, existing, added>>
           ELSE /\ tset' = obj
                /\ tclients' = TargetLocals(obj).tclients
                /\ existing' = TargetLocals(obj).existing
                /\ added' = 0
                /\ pc' = "load_source"
                /\ UNCHANGED <<out, pending>>
    /\ UNCHANGED <<hasClients, clients, settings, target_id, src_ids, si, db0, calls, prev>>

\* lines 229-242: one turn of "for sid in src_ids"
LoadSource ==
    /\ pc = "load_source"
    /\ UNCHANGED callVars
    /\ ops' = Append(ops, <<"read", src_ids[si]>>)
    /\ LET obj == load_settings(settings[src_ids[si]])
           st == SourceTurn(Locals(tclients, existing, added), obj)
       IN  IF obj.k # "obj"
           THEN /\ Raise
                /\ UNCHANGED <<tclients, existing, added, si>>
           ELSE /\ tclients' = st.tclients
                /\ existing' = st.existing
                /\ added' = st.added
                /\ si' = si + 1
                /\ pc' = IF si + 1 > Len(src_ids) THEN "save" ELSE "load_source"
                /\ UNCHANGED <<out, pending>>
    /\ UNCHANGED <<hasClients, clients, settings, target_id, src_ids, tset, db0, calls, prev>>

\* Save on a connection in autocommit mode: the UPDATE is durable at once
SaveAutocommit ==
    /\ pc = "save"
    /\ UNCHANGED callVars
    /\ tset' = SetClients(tset, tclients)
    /\ settings' = [settings EXCEPT
                       ![target_id] = json_dumps(SetClients(tset, tclients))]
    /\ pending' = [id |-> target_id, blob |-> json_dumps(SetClients(tset, tclients))]
    /\ ops' = Append(ops, <<"write", target_id>>)
    /\ pc' = "commit"
    /\ UNCHANGED <<hasClients, clients, target_id, src_ids, tclients,
                   existing, added, si, out, db0, calls, prev>>

\* lines 244-245: the UPDATE, not yet committed
Save ==
    /\ pc = "save"
    /\ UNCHANGED callVars
    /\ tset' = SetClients(tset, tclients)
    /\ pending' = [id |-> target_id, blob |-> json_dumps(SetClients(tset, tclients))]
    /\ ops' = Append(ops, <<"write", target_id>>)
    /\ pc' = "commit"
    /\ UNCHANGED <<hasClients, clients, settings, target_id, src_ids, tclients,
                   existing, added, si, out, db0, calls, prev>>

\* lines 246-248: commit, close, print the result
Commit ==
    /\ pc = "commit"
    /\ UNCHANGED callVars
    /\ settings' = [settings EXCEPT ![pending.id] = pending.blob]
    /\ pending' = NoPending
    /\ out' = OkJson(added, Len(tclients))
    /\ pc' = "done"
    /\ UNCHANGED <<hasClients, clients, target_id, src_ids, tset, tclients,
                   existing, added, si, ops, db0,
                   calls, prev>>

\* the python process stops where it is (killed, connection lost): its
\* variables are gone and what it did not commit is rolled back
Stop ==
    /\ pc \in {"load_target", "load_source", "save", "commit"}
    /\ UNCHANGED callVars
    /\ pending' = NoPending
    /\ out' = Failed("stopped", "JSON")
    /\ pc' = "stopped"
    /\ tset' = EmptyObj
    /\ tclients' = <<>>
    /\ existing' = {}
    /\ added' = 0
    /\ si' = 0
    /\ UNCHANGED <<hasClients, clients, settings, target_id, src_ids, ops, db0,
                   calls, prev>>

NextSteps ==
    \/ Start
    \/ LoadTarget
    \/ LoadSource
    \/ Save
    \/ Commit
    \/ Stop

SpecSteps == InitSteps /\ [][NextSteps]_vars

----------------------------------------------------------------------------
(* SpecCall: merge_confirm from the operator's OK to its last message, and *)
(* the script it runs on the server, for databases of any schema           *)

\* the port of every row of the inbounds table
PortOf == [i \in InboundIds |-> 8000 + i]

\* the ports the operator can have typed: those of the inbounds and a port
\* that no inbound listens on
Ports == {PortOf[i] : i \in InboundIds} \cup {8443}

\* SELECT id FROM inbounds WHERE port=...; without the table sqlite3 prints
\* its error on stderr and nothing on stdout
IdsAt(port) == IF hasInbounds THEN {i \in InboundIds : PortOf[i] = port} ELSE {}

\* an id for every port
get_inbound_id_any(port) ==
    IF IdsAt(port) = {} THEN 1
    ELSE CHOOSE i \in IdsAt(port) : \A j \in IdsAt(port) : j <= i

\* ORDER BY id DESC LIMIT 1, then "int(v) if v.isdigit() else None"; 0 stands
\* for None, which "if not target_id" and "if not iid" do not tell from 0
get_inbound_id(port) ==
    IF IdsAt(port) = {} THEN 0
    ELSE CHOOSE i \in IdsAt(port) : \A j \in IdsAt(port) : j <= i

\* only the first port that has no inbound
MissingFirstOnly(ports) ==
    LET m == SelectSeq(ports, LAMBDA p : get_inbound_id(p) = 0)
    IN  IF m = <<>> THEN <<>> ELSE <<Head(m)>>

\* the list missing after "for p in src_ports"
Missing(ports) == SelectSeq(ports, LAMBDA p : get_inbound_id(p) = 0)

\* the list source_ids after "for p in src_ports"
SourceIds(ports) ==
    LET found == SelectSeq(ports, LAMBDA p : get_inbound_id(p) # 0)
    IN  [i \in DOMAIN found |-> get_inbound_id(found[i])]

\* the first candidate name among the columns of inbounds, "" for None
Candidates == <<"settings", "setting", "settingsJson", "settings_json">>

settings_col(cols) ==
    IF \E i \in DOMAIN Candidates : Candidates[i] \in cols
    THEN Candidates[CHOOSE i \in DOMAIN Candidates :
                       /\ Candidates[i] \in cols
                       /\ \A j \in 1..(i - 1) : Candidates[j] \notin cols]
    ELSE ""

\* the files a call can leave on the server
ScriptFile == "/tmp/xuihub_merge.sh"
BackupFile == "/tmp/xuihub_db_backup_<date>.db"

\* a row of a clients table that has only the columns cols besides id and
\* inbound_id
RowWith(r, cols) == [c \in {"id", "inbound_id"} \cup cols |-> r[c]]
TableWith(tbl, cols) == [i \in DOMAIN tbl |-> RowWith(tbl[i], cols)]

\* the column layouts of the clients table: the panel's, one with uuid only,
\* one without uuid, one with id and inbound_id only
Layouts == {RowCols, {"uuid"}, {"email"}, {}}

\* the column sets of the inbounds table, as far as the settings go
InboundsLayouts == {{"settings"}, {"setting", "settings_json"}, {}}

\* the clients tables of the calls: row i is a client of inbound i
CallTables ==
    {t \in InitTables : \A i \in DOMAIN t : t[i].inbound_id = i /\ t[i].uuid # SqlNull}

\* the settings cells of the calls: a value that is no object, or an object
\* with a list of clients
CallBlobs == {NonObjBlob} \cup {ObjBlob(List(l)) : l \in SeqsUpTo({cA, cR}, MaxTotal)}

CallSettings ==
    {f \in [InboundIds -> CallBlobs] :
        SeqSum([i \in 1..Cardinality(InboundIds) |-> Weight(f[i])]) <= MaxTotal}

\* the operator has sent OK; the server is in the store and its database has
\* been found (lines 1117-1145)
InitConfirm ==
    /\ hasClients \in BOOLEAN
    /\ hasInbounds \in BOOLEAN
    /\ clientsCols \in (IF hasClients THEN Layouts ELSE {{}})
    /\ inboundsCols \in (IF hasInbounds THEN InboundsLayouts ELSE {{}})
    /\ clients \in (IF hasClients
                    THEN {TableWith(t, clientsCols) : t \in CallTables}
                    ELSE {<<>>})
    /\ settings \in (IF ~hasClients /\ settings_col(inboundsCols) # ""
                     THEN CallSettings
                     ELSE {NoCells})
    /\ target_port \in Ports
    /\ src_ports \in SeqsUpTo(Ports, MaxSrc) \ {<<>>}
    /\ missing = <<>>
    /\ lookups = <<>>
    /\ files = {}
    /\ steps = <<>>
    /\ code = 0
    /\ reply = "none"
    /\ restarted = FALSE
    /\ conv = "MERGE_CONFIRM"
    /\ user_data = [merge |-> Merge(1, Len(src_ports), src_ports, target_port),
                    other |-> FALSE]
    /\ servers = {1}
    /\ visited = <<"MERGE_COUNT", "MERGE_PORTS", "MERGE_TARGET", "MERGE_CONFIRM">>
    /\ contacted = TRUE
    /\ fs = {WellKnown[1]}
    /\ sudo = TRUE
    /\ db_path = WellKnown[1]
    /\ panel = <<>>
    /\ text = <<"O", "K">>
    /\ NoBot
    /\ NoRun
    /\ db0 = [clients |-> clients, settings |-> settings]
    /\ pc = "confirm"

schemaVars == <<hasClients, hasInbounds, clientsCols, inboundsCols>>
dbVars == <<clients, settings, pending>>
pyVars == <<tset, tclients, existing, added, si, ops>>
inputVars == <<target_port, src_ports>>

\* lines 1147-1171: the target and every source are looked up by port
Validate ==
    /\ pc = "confirm"
    /\ db0' = [clients |-> clients, settings |-> settings]
    /\ target_id' = get_inbound_id(target_port)
    /\ IF get_inbound_id(target_port) = 0
       THEN /\ lookups' = <<target_port>>
            /\ reply' = "target_not_found"
            /\ user_data' = Cleared
            /\ conv' = "END"
            /\ pc' = "ended"
            /\ UNCHANGED <<src_ids, missing>>
       ELSE /\ lookups' = <<target_port>> \o src_ports
            /\ missing' = Missing(src_ports)
            /\ IF Missing(src_ports) # <<>>
               THEN /\ reply' = "ports_not_found"
                    /\ user_data' = Cleared
                    /\ conv' = "END"
                    /\ pc' = "ended"
                    /\ UNCHANGED src_ids
               ELSE /\ src_ids' = SourceIds(src_ports)
                    /\ pc' = "remote"
                    /\ UNCHANGED <<reply, user_data, conv>>
    /\ UNCHANGED <<schemaVars, dbVars, pyVars, inputVars, out, calls, prev, files,
                   steps, code, restarted, restVars>>

\* lines 1176-1184 and 135-136: the script is written to the server and
\* started; it ends at once when "command -v" does not find a tool
StartScript ==
    /\ pc = "remote"
    /\ files' = files \cup {ScriptFile}
    /\ \E sqlite3 \in BOOLEAN, python3 \in BOOLEAN :
          IF ~sqlite3
          THEN out' = Failed("ERR_NO_SQLITE3", "none") /\ code' = 10 /\ pc' = "exit"
          ELSE IF ~python3
          THEN out' = Failed("ERR_NO_PYTHON3", "none") /\ code' = 13 /\ pc' = "exit"
          ELSE pc' = "backup" /\ UNCHANGED <<out, code>>
    /\ UNCHANGED <<schemaVars, dbVars, pyVars, inputVars, sessVars, target_id, src_ids,
                   db0, calls, prev, missing, lookups, steps, reply, restarted>>

\* the script without line 138
BackupSkipped ==
    /\ pc = "backup"
    /\ pc' = "probe"
    /\ UNCHANGED <<schemaVars, dbVars, pyVars, inputVars, sessVars, target_id, src_ids,
                   db0, calls, prev, missing, lookups, files, steps, out, code, reply,
                   restarted>>

\* line 138 without "|| true": a cp that fails ends the script ("set -e")
BackupFatal ==
    /\ pc = "backup"
    /\ steps' = Append(steps, "cp")
    /\ \E copied \in BOOLEAN :
          IF copied
          THEN files' = files \cup {BackupFile} /\ pc' = "probe" /\ UNCHANGED <<out, code>>
          ELSE /\ out' = Failed("error", "none")
               /\ code' = 1
               /\ pc' = "exit"
               /\ UNCHANGED files
    /\ UNCHANGED <<schemaVars, dbVars, pyVars, inputVars, sessVars, target_id, src_ids,
                   db0, calls, prev, missing, lookups, reply, restarted>>

\* line 138: the copy of the database file, which may fail
Backup ==
    /\ pc = "backup"
    /\ steps' = Append(steps, "cp")
    /\ \E copied \in BOOLEAN :
          files' = IF copied THEN files \cup {BackupFile} ELSE files
    /\ pc' = "probe"
    /\ UNCHANGED <<schemaVars, dbVars, pyVars, inputVars, sessVars, target_id, src_ids,
                   db0, calls, prev, missing, lookups, out, code, reply, restarted>>

\* lines 140-142 and 173: the branch is taken by the count of tables named
\* clients
ChooseStrategy ==
    /\ pc = "probe"
    /\ pc' = IF hasClients THEN "table" ELSE "json"
    /\ UNCHANGED <<schemaVars, dbVars, pyVars, inputVars, sessVars, target_id, src_ids,
                   db0, calls, prev, missing, lookups, files, steps, out, code, reply,
                   restarted>>

\* the TABLE branch going on to the python program when a check fails
TablePreconditionsFallBack ==
    /\ pc = "table"
    /\ steps' = Append(steps, "TABLE")
    /\ pc' = IF clientsCols = {} \/ "uuid" \notin clientsCols THEN "json" ELSE "insert"
    /\ UNCHANGED <<schemaVars, dbVars, pyVars, inputVars, sessVars, target_id, src_ids,
                   db0, calls, prev, missing, lookups, files, out, code, reply, restarted>>

\* lines 143-153: COLS is empty when the table has no column besides id and
\* inbound_id; HAS_UUID is 0 when it has no column uuid
TablePreconditions ==
    /\ pc = "table"
    /\ steps' = Append(steps, "TABLE")
    /\ IF clientsCols = {}
       THEN /\ out' = Failed("ERR_NO_CLIENTS_TABLE", "TABLE")
            /\ code' = 11
            /\ pc' = "exit"
       ELSE IF "uuid" \notin clientsCols
       THEN /\ out' = Failed("ERR_NO_UUID", "TABLE")
            /\ code' = 12
            /\ pc' = "exit"
       ELSE /\ pc' = "insert"
            /\ UNCHANGED <<out, code>>
    /\ UNCHANGED <<schemaVars, dbVars, pyVars, inputVars, sessVars, target_id, src_ids,
                   db0, calls, prev, missing, lookups, files, reply, restarted>>

\* the python program going on without a settings column
SettingsProbeGoesOn ==
    /\ pc = "json"
    /\ steps' = Append(steps, "JSON")
    /\ pc' = "python"
    /\ UNCHANGED <<schemaVars, dbVars, pyVars, inputVars, sessVars, target_id, src_ids,
                   db0, calls, prev, missing, lookups, files, out, code, reply, restarted>>

\* lines 173-194: the python program looks for the settings column
SettingsProbe ==
    /\ pc = "json"
    /\ steps' = Append(steps, "JSON")
    /\ IF settings_col(inboundsCols) = ""
       THEN /\ out' = Failed("ERR_NO_SETTINGS_COL", "JSON")
            /\ code' = 20
            /\ pc' = "exit"
       ELSE /\ pc' = "python"
            /\ UNCHANGED <<out, code>>
    /\ UNCHANGED <<schemaVars, dbVars, pyVars, inputVars, sessVars, target_id, src_ids,
                   db0, calls, prev, missing, lookups, files, reply, restarted>>

confirmVars == <<hasInbounds, clientsCols, inboundsCols, target_port, src_ports,
                 missing, lookups, files, reply, restarted, sessVars>>

\* lines 155-170: the INSERT and the result line
InsertRows ==
    /\ pc = "insert"
    /\ TableRun(target_id, src_ids)
    /\ steps' = Append(steps, "insert")
    /\ code' = 0
    /\ UNCHANGED confirmVars

\* lines 155-165: the INSERT fails, sqlite3 and then the script exit with 1
InsertFails ==
    /\ pc = "insert"
    /\ TableRunFails(target_id, src_ids)
    /\ steps' = Append(steps, "insert")
    /\ code' = 1
    /\ UNCHANGED confirmVars

\* lines 196-248: the python program reads, merges and writes; an uncaught
\* exception ends it with status 1 before it has written
RunPython ==
    /\ pc = "python"
    /\ JsonRunStep(target_id, src_ids)
    /\ steps' = IF out'.status = "ok" THEN Append(steps, "update") ELSE steps
    /\ code' = IF out'.status = "ok" THEN 0 ELSE 1
    /\ UNCHANGED confirmVars

\* merge_confirm restarting the service whatever the script returned
ReplyRestartsAlways ==
    /\ pc \in {"exit", "done", "failed"}
    /\ reply' = IF code # 0 THEN "error" ELSE "merged"
    /\ restarted' = TRUE
    /\ user_data' = Cleared
    /\ conv' = "END"
    /\ pc' = "ended"
    /\ UNCHANGED <<schemaVars, dbVars, pyVars, inputVars, target_id, src_ids,
                   db0, calls, prev, missing, lookups, files, steps, out, code, restVars>>

\* lines 1191-1206: the error message, or the restart and the success message
Reply ==
    /\ pc \in {"exit", "done", "failed"}
    /\ IF code # 0
       THEN reply' = "error" /\ UNCHANGED restarted
       ELSE reply' = "merged" /\ restarted' = TRUE
    /\ user_data' = Cleared
    /\ conv' = "END"
    /\ pc' = "ended"
    /\ UNCHANGED <<schemaVars, dbVars, pyVars, inputVars, target_id, src_ids,
                   db0, calls, prev, missing, lookups, files, steps, out, code, restVars>>

NextCall ==
    \/ Validate
    \/ StartScript
    \/ Backup
    \/ ChooseStrategy
    \/ TablePreconditions
    \/ SettingsProbe
    \/ InsertRows
    \/ InsertFails
    \/ RunPython
    \/ Reply

SpecCall == InitConfirm /\ [][NextCall]_vars

----------------------------------------------------------------------------
(* SpecKey: client_key applied to the records of a list (lines 216-226)    *)

MaxAttrs == 2    \* attributes of a record

AttrNames == {"uuid", "id", "email", "password", "flow"}

\* a plain string, a string with blanks around it, a blank string, a number
AttrValues == {Str(<<"a">>), Str(<<" ", "a">>), Str(<<" ">>), Num(<<"7">>)}

\* the JSON objects with at most MaxAttrs attributes, in every attribute order
Records ==
    {Dict(p) : p \in {q \in SeqsUpTo(AttrNames \X AttrValues, MaxAttrs) :
                         \A i, j \in DOMAIN q : q[i][1] = q[j][1] => i = j}}

Reverse(s) == [i \in DOMAIN s |-> s[Len(s) + 1 - i]]

\* the records a record is compared with: itself with its attributes in the
\* opposite order, the empty record, the entries of the databases
Others(c) == {Dict(Reverse(c.v)), Dict(<<>>), cA, cA2, cR}

InitKeys ==
    /\ hasClients = FALSE
    /\ clients = <<>>
    /\ settings = NoCells
    /\ UsualSchema
    /\ NoConfirm
    /\ pending = NoPending
    /\ target_id = 0
    /\ src_ids = <<>>
    /\ tset = EmptyObj
    /\ tclients \in UNION {{<<c, d>> : d \in Others(c)} : c \in Records}
    /\ existing = {}
    /\ added = 0
    /\ si = 0
    /\ out = NoOut
    /\ ops = <<>>
    /\ db0 = [clients |-> <<>>, settings |-> NoCells]
    /\ calls = 0
    /\ prev = NoOut
    /\ pc = "keys"

\* lines 223-226: the keys of the records of tclients
CollectKeys ==
    /\ pc = "keys"
    /\ existing' = KeysOf(tclients)
    /\ pc' = "keyed"
    /\ UNCHANGED <<hasClients, clients, settings, pending, target_id, src_ids, tset,
                   tclients, added, si, out, ops, db0, calls, prev, callVars>>

NextKeys == CollectKeys

SpecKey == InitKeys /\ [][NextKeys]_vars

----------------------------------------------------------------------------
(* SpecFind: FIND_DB_CMD (lines 107-120) on the files named x-ui.db of a   *)
(* server                                                                  *)

MaxDepth == 6    \* "-maxdepth 6" (line 109)

\* files named x-ui.db outside the well-known paths: two copies that find
\* reaches and one below the depth it descends to
StrayPaths ==
    { <<"root", "x-ui.db">>,
      <<"home", "backup", "x-ui.db">>,
      <<"a", "b", "c", "d", "e", "f", "x-ui.db">> }

DbPaths == Range(WellKnown) \cup StrayPaths

\* line 109: the lines find prints; nothing when sudo fails (its message goes
\* to /dev/null)
Found(paths, works) == IF works THEN {p \in paths : Len(p) <= MaxDepth} ELSE {}

\* lines 111-113: the first of the well-known paths that is a file, from the
\* i-th on; <<>> when there is none
RECURSIVE FirstWellKnown(_, _)
FirstWellKnown(paths, i) ==
    IF i > Len(WellKnown) THEN <<>>
    ELSE IF WellKnown[i] \in paths THEN WellKnown[i]
    ELSE FirstWellKnown(paths, i + 1)

NotFound == <<"NOT_FOUND">>

\* lines 109-119: what FIND_DB_CMD may print. "head -n 1" takes the first
\* line of find, which lists the directories in the order they are stored
FindDbOutputs(paths, works) ==
    IF Found(paths, works) # {} THEN Found(paths, works)
    ELSE IF FirstWellKnown(paths, 1) # <<>> THEN {FirstWellKnown(paths, 1)}
    ELSE {NotFound}

InitFind ==
    /\ hasClients = FALSE
    /\ clients = <<>>
    /\ settings = NoCells
    /\ UsualSchema
    /\ NoCallState
    /\ NoConversation
    /\ NoRun
    /\ db0 = [clients |-> <<>>, settings |-> NoCells]
    /\ fs \in SUBSET DbPaths
    /\ sudo \in BOOLEAN
    /\ db_path = <<>>
    /\ pc = "locate"

\* lines 1135-1141 (and 462-467): the command is run and the last line of its
\* output is taken
Locate ==
    /\ pc = "locate"
    /\ db_path' \in FindDbOutputs(fs, sudo)
    /\ contacted' = TRUE
    /\ pc' = "located"
    /\ UNCHANGED <<hasClients, clients, settings, pending, target_id, src_ids, tset,
                   tclients, existing, added, si, out, ops, db0, calls, prev,
                   hasInbounds, clientsCols, inboundsCols, target_port, src_ports,
                   missing, lookups, files, steps, code, reply, restarted,
                   conv, user_data, servers, visited, fs, sudo, panel, text, botVars>>

NextFind == Locate

SpecFind == InitFind /\ [][NextFind]_vars

----------------------------------------------------------------------------
(* SpecRace: the python program (lines 173-248) beside another writer of   *)
(* the database file, such as the panel, which is running while the script *)
(* runs (it is restarted only afterwards, line 1197)                       *)

\* the client the other writer adds
cP == Dict(<< <<"uuid", Str(<<"p">>)>> >>)

\* the settings text b with one more client, as the panel stores it
PanelAdds(b, c) == Blob("obj", "stored", b.other, List(Append(b.clients.v, c)))

InitRace ==
    /\ hasClients = FALSE
    /\ clients = <<>>
    /\ settings \in CallSettings
    /\ InitCall

\* the other writer commits a client of its own to the settings of the
\* target. The python connection holds no lock between its statements until
\* the UPDATE of line 209 (no transaction is open before it), so the commit
\* falls before the read of the target, between two reads or before the
\* UPDATE
PanelWrites ==
    /\ pc \in {"load_target", "load_source", "save"}
    /\ panel = <<>>
    /\ \E i \in {target_id} :
          /\ settings[i].k = "obj"
          /\ settings[i].clients.k = "list"
          /\ settings' = [settings EXCEPT ![i] = PanelAdds(settings[i], cP)]
          /\ panel' = <<[id |-> i, client |-> cP, at |-> pc]>>
    /\ UNCHANGED <<hasClients, clients, pending, pc, target_id, src_ids, tset,
                   tclients, existing, added, si, out, ops, db0, calls, prev,
                   hasInbounds, clientsCols, inboundsCols, target_port, src_ports,
                   missing, lookups, files, steps, code, reply, restarted,
                   conv, user_data, servers, visited, contacted, fs, sudo, db_path,
                   text, botVars>>

NextRace ==
    \/ Start
    \/ LoadTarget
    \/ LoadSource
    \/ Save
    \/ Commit
    \/ Stop
    \/ PanelWrites

SpecRace == InitRace /\ [][NextRace]_vars

----------------------------------------------------------------------------
(* SpecConv: the merge conversation (conv_merge, lines 1709-1719) from its *)
(* entry point to the last message of merge_confirm, beside the callbacks  *)
(* of nav_callbacks that work on the same store and context.user_data.     *)
(* The application handles one update at a time, so a handler is one step; *)
(* merge_confirm goes on in the steps of SpecCall.                         *)

MaxCount == 30       \* "1 <= n <= 30" (line 1066)
MaxPort == 65535     \* "1 <= port <= 65535" (lines 1081 and 1100)

DigitChars == <<"0", "1", "2", "3", "4", "5", "6", "7", "8", "9">>

DigitVal(ch) == CHOOSE d \in 0..9 : DigitChars[d + 1] = ch

\* the decimal digits of n
RECURSIVE Digits(_)
Digits(n) == IF n < 10 THEN <<DigitChars[n + 1]>>
             ELSE Append(Digits(n \div 10), DigitChars[(n % 10) + 1])

RECURSIVE IntOf(_)
IntOf(chars) ==
    IF chars = <<>> THEN 0
    ELSE 10 * IntOf(SubSeq(chars, 1, Len(chars) - 1)) + DigitVal(chars[Len(chars)])

\* int(text.strip()) on the texts of the model; -1 stands for ValueError
int(t) ==
    IF Strip(t) = <<>> \/ \E i \in DOMAIN Strip(t) : Strip(t)[i] \notin Range(DigitChars)
    THEN -1
    ELSE IntOf(Strip(t))

\* accepting every text
IsOkAny(t) == TRUE

\* the capital letters of the model and their small letters
Capitals == <<"O", "K", "R", "E", "S", "T">>
Smalls == <<"o", "k", "r", "e", "s", "t">>

\* str.lower() on the letters of the model
lower(t) == [i \in DOMAIN t |->
                IF \E j \in DOMAIN Capitals : Capitals[j] = t[i]
                THEN Smalls[CHOOSE j \in DOMAIN Capitals : Capitals[j] = t[i]]
                ELSE t[i]]

\* line 1117: text.strip().lower() == "ok"
IsOk(t) == lower(Strip(t)) = <<"o", "k">>

\* what the operator may send as a count
CountTexts ==
    {Digits(n) : n \in 1..MaxSrc} \cup {<<"0">>, Digits(MaxCount + 1), <<"x">>}

\* what the operator may send as a port
PortTexts ==
    {Digits(p) : p \in Ports} \cup {<<"0">>, Digits(MaxPort + 1), <<"x">>,
                                    <<" ">> \o Digits(PortOf[1])}

\* what the operator may send in MERGE_CONFIRM
ConfirmTexts == {<<"O", "K">>, <<"o", "k">>, <<" ", "o", "K", " ">>, <<"n", "o">>,
                 <<"o", "k", "!">>}

\* server ids of callback data: 1 is in the store at first, 2 never is
ServerIds == {1, 2}

\* the state a handler returns is recorded when it differs from the current
Goes(state) == IF state = conv THEN visited ELSE Append(visited, state)

callLocals == <<target_port, src_ports, missing, lookups, files, steps, code, reply,
                restarted>>

\* the database, the script and the locals of merge_confirm
serverVars == <<schemaVars, dbVars, pyVars, target_id, src_ids, out, db0, calls, prev,
                callLocals>>

InitConv ==
    /\ hasClients \in BOOLEAN
    /\ UsualSchema
    /\ IF hasClients
       THEN clients \in {t \in CallTables : Len(t) = MaxRows} /\ settings = NoCells
       ELSE clients = <<>> /\ settings \in {f \in CallSettings : f[1] = f[2] /\ f[2] = f[3]}
    /\ NoCallState
    /\ NoConversation
    /\ NoRun
    /\ db0 = [clients |-> clients, settings |-> settings]
    /\ fs \in {{WellKnown[1]}, {}}
    /\ sudo = TRUE
    /\ db_path = <<>>
    /\ pc = "idle"

\* lines 1040-1061: the button "merge:<sid>"; conv_merge allows re-entry, so
\* the button works in every state
merge_entry ==
    /\ pc = "idle"
    /\ text' = <<>>
    /\ \E sid \in ServerIds :
          IF sid \notin servers
          THEN /\ conv' = "END"
               /\ visited' = <<>>
               /\ UNCHANGED user_data
          ELSE /\ user_data' = [merge |-> Merge(sid, 0, <<>>, 0), other |-> FALSE]
               /\ conv' = "MERGE_COUNT"
               /\ visited' = <<"MERGE_COUNT">>
    /\ UNCHANGED <<serverVars, pc, servers, contacted, fs, sudo, db_path, panel, botVars>>

\* lines 1063-1075: a text in MERGE_COUNT. A text that is no number in
\* 1..30 is answered and changes nothing; without the key "merge" line 1072
\* raises KeyError, which leaves the conversation where it is
merge_count ==
    /\ pc = "idle"
    /\ conv = "MERGE_COUNT"
    /\ \E t \in CountTexts :
          /\ text' = t
          /\ IF int(t) \notin 1..MaxCount \/ ~user_data.merge.has
             THEN UNCHANGED <<user_data, conv, visited>>
             ELSE /\ user_data' = [user_data EXCEPT !.merge.count = int(t),
                                                    !.merge.ports = <<>>]
                  /\ conv' = "MERGE_PORTS"
                  /\ visited' = Goes("MERGE_PORTS")
    /\ UNCHANGED <<serverVars, pc, servers, contacted, fs, sudo, db_path, panel, botVars>>

\* lines 1077-1094: a text in MERGE_PORTS. Without the key "merge" line 1078
\* raises KeyError
merge_ports ==
    /\ pc = "idle"
    /\ conv = "MERGE_PORTS"
    /\ \E t \in PortTexts :
          /\ text' = t
          /\ IF ~user_data.merge.has \/ int(t) \notin 1..MaxPort
             THEN UNCHANGED <<user_data, conv, visited>>
             ELSE /\ user_data' = [user_data EXCEPT
                                      !.merge.ports = Append(@, int(t))]
                  /\ conv' = IF Len(user_data.merge.ports) + 1 < user_data.merge.count
                             THEN "MERGE_PORTS"
                             ELSE "MERGE_TARGET"
                  /\ visited' = Goes(conv')
    /\ UNCHANGED <<serverVars, pc, servers, contacted, fs, sudo, db_path, panel, botVars>>

\* lines 1096-1114: a text in MERGE_TARGET. Without the key "merge" line 1097
\* raises KeyError
merge_target ==
    /\ pc = "idle"
    /\ conv = "MERGE_TARGET"
    /\ \E t \in PortTexts :
          /\ text' = t
          /\ IF ~user_data.merge.has \/ int(t) \notin 1..MaxPort
             THEN UNCHANGED <<user_data, conv, visited>>
             ELSE /\ user_data' = [user_data EXCEPT !.merge.target_port = int(t)]
                  /\ conv' = "MERGE_CONFIRM"
                  /\ visited' = Goes("MERGE_CONFIRM")
    /\ UNCHANGED <<serverVars, pc, servers, contacted, fs, sudo, db_path, panel, botVars>>

\* lines 1116-1145: a text in MERGE_CONFIRM. A text other than OK is answered
\* and changes nothing; without the key "merge" line 1124 raises KeyError;
\* ssh_exec raises when the connection cannot be made (lines 91, 102), and
\* nothing in merge_confirm catches it
merge_confirm ==
    /\ pc = "idle"
    /\ conv = "MERGE_CONFIRM"
    /\ \E t \in ConfirmTexts :
          /\ text' = t
          /\ IF ~IsOk(t) \/ ~user_data.merge.has
             THEN UNCHANGED <<user_data, conv, pc, contacted, db_path, reply,
                              src_ports, target_port>>
             ELSE IF user_data.merge.server_id \notin servers
             THEN /\ user_data' = Cleared
                  /\ conv' = "END"
                  /\ reply' = "server_not_found"
                  /\ pc' = "ended"
                  /\ UNCHANGED <<contacted, db_path, src_ports, target_port>>
             ELSE /\ src_ports' = user_data.merge.ports
                  /\ target_port' = user_data.merge.target_port
                  /\ contacted' = TRUE
                  /\ \E connected \in BOOLEAN :
                        IF ~connected
                        THEN /\ pc' = "aborted"
                             /\ UNCHANGED <<user_data, conv, db_path, reply>>
                        ELSE /\ db_path' \in FindDbOutputs(fs, sudo)
                             /\ IF db_path' = NotFound
                                THEN /\ user_data' = Cleared
                                     /\ conv' = "END"
                                     /\ reply' = "db_not_found"
                                     /\ pc' = "ended"
                                ELSE /\ pc' = "confirm"
                                     /\ UNCHANGED <<user_data, conv, reply>>
    /\ UNCHANGED <<schemaVars, dbVars, pyVars, target_id, src_ids, out, db0, calls,
                   prev, missing, lookups, files, steps, code, restarted, servers,
                   visited, fs, sudo, panel, botVars>>

\* lines 587-595 of nav_callbacks: the button "edit_server:<sid>", which no
\* state of conv_merge handles
edit_server ==
    /\ pc = "idle"
    /\ text' = <<>>
    /\ \E sid \in ServerIds :
          IF sid \notin servers
          THEN UNCHANGED <<user_data, ud>>
          ELSE /\ user_data' = [merge |-> NoMerge, other |-> TRUE]
               /\ ud' = [NoKeys EXCEPT !.edit_sid = sid]
    /\ UNCHANGED <<serverVars, pc, conv, visited, servers, contacted, fs, sudo,
                   db_path, panel, bucket, sv, ed, bk, local_files, ran, doc>>

\* lines 578-585 of nav_callbacks: the button "del_server:<sid>"
del_server ==
    /\ pc = "idle"
    /\ text' = <<>>
    /\ \E sid \in ServerIds : servers' = servers \ {sid}
    /\ UNCHANGED <<serverVars, pc, conv, user_data, visited, contacted, fs, sudo,
                   db_path, panel, botVars>>

\* ssh_exec raises in one of the lookups (line 1148), for the script (line
\* 1186) or in restart_xui (line 1197): the handler ends there
SshFails ==
    /\ \/ pc \in {"confirm", "remote"}
       \/ pc \in {"exit", "done", "failed"} /\ code = 0
    /\ pc' = "aborted"
    /\ UNCHANGED <<serverVars, sessVars>>

NextConv ==
    \/ merge_entry
    \/ merge_count
    \/ merge_ports
    \/ merge_target
    \/ merge_confirm
    \/ edit_server
    \/ del_server
    \/ SshFails
    \/ Validate
    \/ StartScript
    \/ Backup
    \/ ChooseStrategy
    \/ TablePreconditions
    \/ SettingsProbe
    \/ InsertRows
    \/ InsertFails
    \/ RunPython
    \/ Reply

SpecConv == InitConv /\ [][NextConv]_vars

----------------------------------------------------------------------------
(* SpecBackup: conv_backup (lines 1231-1658): the export of a database as  *)
(* a document and the restore of a received document, into a stored server *)
(* or into one typed in for the occasion, beside the buttons of            *)
(* nav_callbacks that clear context.user_data or delete a server           *)

MaxFiles == 2    \* temporary files the host of the bot holds at a time

\* the states whose only handler is backup_menu_router (lines 1726-1729)
RouterStates ==
    {"BK_MENU", "BK_EXPORT_PICK_SERVER", "BK_IMPORT_CHOOSE_MODE", "BK_IMPORT_PICK_SERVER"}

\* accepting every text
IsRestoreAny(t) == TRUE

\* lines 1430 and 1563: text.strip().lower() != "restore"
IsRestore(t) == lower(Strip(t)) = <<"r", "e", "s", "t", "o", "r", "e">>

\* what the operator may send in the two confirm states
RestoreTexts ==
    { <<"R", "E", "S", "T", "O", "R", "E">>,
      <<"r", "e", "s", "t", "o", "r", "e">>,
      <<" ", "R", "e", "s", "t", "o", "r", "e", " ">>,
      <<"r", "e", "s", "t", "o", "r", "e", "!">>,
      <<"O", "K">> }

\* what the operator may send as host, user and password, and as port
SshTexts == {<<"h">>}
SshPortTexts == {<<"2", "2">>, <<"0">>, Digits(MaxPort + 1), <<"x">>}

\* one command on a server and how it went: "ok", "fails" (it ran and
\* returned non-zero) or "raises" (paramiko raised, lines 91 and 95)
Cmd(cmd, res) == [cmd |-> cmd, res |-> res]

\* tempfile.NamedTemporaryFile(prefix=..., delete=False): a file that does
\* not exist yet
FreeNames == {n \in 1..MaxFiles : \A f \in local_files : f.n # n}
NewFile(prefix) == [prefix |-> prefix, n |-> CHOOSE n \in FreeNames : \A m \in FreeNames : n <= m]

\* os.remove(local_file) inside try/except (lines 1450, 1499, 1585, 1630)
Removed(f) == {g \in local_files : g # f}

\* lines 1280-1352 once the server is known: what bk_export_pick_server may
\* do. cmds are the commands in order, path is db_path, made tells that the
\* temporary file was created, kept that it is still there at the end, and
\* raised that the handler ended by an exception
ExportOutcomes(paths, works) ==
    {[cmds |-> <<Cmd("find", "raises")>>, path |-> <<>>, made |-> FALSE,
      kept |-> FALSE, raised |-> TRUE]}
    \cup
    UNION {
      IF p = NotFound
      THEN {[cmds |-> <<Cmd("find", "ok")>>, path |-> p, made |-> FALSE,
             kept |-> FALSE, raised |-> FALSE]}
      ELSE
        \* lines 1294-1309: the copy to remote_tmp
        {[cmds |-> <<Cmd("find", "ok"), Cmd("cp_tmp", "raises")>>, path |-> p,
          made |-> FALSE, kept |-> FALSE, raised |-> TRUE],
         [cmds |-> <<Cmd("find", "ok"), Cmd("cp_tmp", "fails")>>, path |-> p,
          made |-> FALSE, kept |-> FALSE, raised |-> FALSE]}
        \cup
        \* lines 1313-1333: the download, and the removal of remote_tmp in
        \* the finally clause; the except clause returns (line 1327), and an
        \* exception of the finally clause leaves the handler
        {[cmds |-> <<Cmd("find", "ok"), Cmd("cp_tmp", "ok"), Cmd("get", g),
                     Cmd("rm_tmp", r)>>,
          path |-> p, made |-> TRUE,
          kept |-> (g = "raises" \/ r = "raises"),
          raised |-> (r = "raises")] : g \in {"ok", "raises"}, r \in {"ok", "raises"}}
      : p \in FindDbOutputs(paths, works) }

\* lines 1461-1501 and 1596-1632 once db_path is known: what the upload, the
\* restore command and the restart may do. Every exception is caught (lines
\* 1496 and 1627)
RestoreOutcomes ==
    { <<Cmd("put", "raises")>> }
    \cup
    \* "set -e": the command stops at the overwrite when it fails; the copy
    \* before it ends in "|| true"
    { <<Cmd("put", "ok"), Cmd("cp_old", o), Cmd("cp_db", "fails")>> : o \in {"ok", "fails"} }
    \cup
    { <<Cmd("put", "ok"), Cmd("cp_old", o), Cmd("cp_db", "ok"), Cmd("rm_upload", "ok"),
        Cmd("restart", r)>> : o \in {"ok", "fails"}, r \in {"ok", "raises"} }

\* what the handlers of conv_backup leave alone
backupFrame == <<serverVars, pc, conv, visited, panel, bucket, sv, ed, fs, sudo, servers>>

InitBackup ==
    /\ hasClients = FALSE
    /\ clients = <<>>
    /\ settings = NoCells
    /\ UsualSchema
    /\ NoCallState
    /\ NoConversation
    /\ NoRun
    /\ db0 = [clients |-> <<>>, settings |-> NoCells]
    /\ fs \in {{WellKnown[1]}, {}}
    /\ sudo = TRUE
    /\ db_path = <<>>
    /\ pc = "idle"

\* lines 1231-1242: the button "backup_menu"; conv_backup allows re-entry, so
\* the button works in every state
backup_menu_entry ==
    /\ pc = "idle"
    /\ text' = <<>>
    /\ bk' = "BK_MENU"
    /\ ran' = Did("backup_menu_entry", <<>>, NoFile, <<>>, FALSE)
    /\ UNCHANGED <<backupFrame, user_data, ud, local_files, doc, contacted, db_path>>

\* lines 1244-1263: the button "bk_export"
bk_export_start ==
    /\ pc = "idle"
    /\ bk \in RouterStates
    /\ text' = <<>>
    /\ bk' = IF servers = {} THEN "END" ELSE "BK_EXPORT_PICK_SERVER"
    /\ ran' = Did("bk_export_start", <<>>, NoFile, <<>>, FALSE)
    /\ UNCHANGED <<backupFrame, user_data, ud, local_files, doc, contacted, db_path>>

\* lines 1265-1352: the button "bk_export_server:<sid>"
bk_export_pick_server ==
    /\ pc = "idle"
    /\ bk \in RouterStates
    /\ text' = <<>>
    /\ \E sid \in ServerIds :
          IF sid \notin servers
          THEN /\ bk' = "END"
               /\ ran' = Did("bk_export_pick_server", <<>>, NoFile, <<>>, FALSE)
               /\ UNCHANGED <<local_files, contacted, db_path>>
          ELSE \E o \in ExportOutcomes(fs, sudo) :
                  /\ o.made => FreeNames # {}
                  /\ contacted' = TRUE
                  /\ db_path' = o.path
                  /\ local_files' = IF o.kept
                                    THEN local_files \cup {NewFile("xuihub_backup_")}
                                    ELSE local_files
                  /\ bk' = IF o.raised THEN bk ELSE "END"
                  /\ ran' = Did("bk_export_pick_server", <<>>,
                               IF o.made THEN NewFile("xuihub_backup_") ELSE NoFile,
                               o.cmds, o.raised)
    /\ UNCHANGED <<backupFrame, user_data, ud, doc>>

\* lines 1354-1363: the button "bk_import"
bk_import_start ==
    /\ pc = "idle"
    /\ bk \in RouterStates
    /\ text' = <<>>
    /\ user_data' = Cleared
    /\ ud' = NoKeys
    /\ bk' = "BK_IMPORT_CHOOSE_MODE"
    /\ ran' = Did("bk_import_start", <<>>, NoFile, <<>>, FALSE)
    /\ UNCHANGED <<backupFrame, local_files, doc, contacted, db_path>>

\* lines 1365-1385: the button "bk_import_existing"
bk_import_existing_choose ==
    /\ pc = "idle"
    /\ bk \in RouterStates
    /\ text' = <<>>
    /\ IF servers = {}
       THEN bk' = "END" /\ UNCHANGED <<user_data, ud>>
       ELSE bk' = "BK_IMPORT_PICK_SERVER" /\ user_data' = Cleared /\ ud' = NoKeys
    /\ ran' = Did("bk_import_existing_choose", <<>>, NoFile, <<>>, FALSE)
    /\ UNCHANGED <<backupFrame, local_files, doc, contacted, db_path>>

\* lines 1387-1406: the button "bk_import_server:<sid>"
bk_import_pick_server ==
    /\ pc = "idle"
    /\ bk \in RouterStates
    /\ text' = <<>>
    /\ \E sid \in ServerIds :
          IF sid \notin servers
          THEN bk' = "END" /\ UNCHANGED ud
          ELSE /\ bk' = "BK_IMPORT_UPLOAD_FILE"
               /\ ud' = [ud EXCEPT !.bk_target_server = sid]
    /\ ran' = Did("bk_import_pick_server", <<>>, NoFile, <<>>, FALSE)
    /\ UNCHANGED <<backupFrame, user_data, local_files, doc, contacted, db_path>>

\* lines 1408-1427: a document in BK_IMPORT_UPLOAD_FILE is downloaded to a
\* new temporary file
bk_import_receive_file ==
    /\ pc = "idle"
    /\ bk = "BK_IMPORT_UPLOAD_FILE"
    /\ FreeNames # {}
    /\ text' = <<>>
    /\ \E f \in {NewFile("xuihub_restore_")} :
          /\ local_files' = local_files \cup {f}
          /\ ud' = [ud EXCEPT !.bk_local_file = f]
          /\ doc' = f
          /\ ran' = Did("bk_import_receive_file", <<>>, f, <<>>, FALSE)
    /\ bk' = "BK_IMPORT_CONFIRM"
    /\ UNCHANGED <<backupFrame, user_data, contacted, db_path>>

\* lines 1441-1504 and 1578-1635, the same in both handlers: the local file
\* is there; find_db_path (not inside a try), then the restore
Restore(handler, t) ==
    \E connected \in BOOLEAN :
       /\ contacted' = TRUE
       /\ IF ~connected
          THEN /\ ran' = Did(handler, t, ud.bk_local_file, <<Cmd("find", "raises")>>,
                           TRUE)
               /\ UNCHANGED <<bk, user_data, ud, local_files, db_path>>
          ELSE /\ db_path' \in FindDbOutputs(fs, sudo)
               /\ bk' = "END"
               /\ user_data' = Cleared
               /\ ud' = NoKeys
               /\ local_files' = Removed(ud.bk_local_file)
               /\ IF db_path' = NotFound
                  THEN ran' = Did(handler, t, ud.bk_local_file, <<Cmd("find", "ok")>>,
                                  FALSE)
                  ELSE \E cmds \in RestoreOutcomes :
                          ran' = Did(handler, t, ud.bk_local_file,
                                     <<Cmd("find", "ok")>> \o cmds, FALSE)

\* lines 1429-1504: a text in BK_IMPORT_CONFIRM
bk_import_confirm ==
    /\ pc = "idle"
    /\ bk = "BK_IMPORT_CONFIRM"
    /\ \E t \in RestoreTexts :
          /\ text' = t
          /\ IF ~IsRestore(t)
             THEN /\ ran' = Did("bk_import_confirm", t, ud.bk_local_file, <<>>, FALSE)
                  /\ UNCHANGED <<bk, user_data, ud, local_files, contacted, db_path>>
             ELSE IF \/ ud.bk_target_server = 0
                     \/ ud.bk_local_file = NoFile
                     \/ ud.bk_local_file \notin local_files
             THEN /\ bk' = "END"
                  /\ user_data' = Cleared
                  /\ ud' = NoKeys
                  /\ ran' = Did("bk_import_confirm", t, ud.bk_local_file, <<>>, FALSE)
                  /\ UNCHANGED <<local_files, contacted, db_path>>
             ELSE Restore("bk_import_confirm", t)
    /\ UNCHANGED <<backupFrame, doc>>

\* lines 1507-1513: the button "bk_import_new"
bk_import_new_start ==
    /\ pc = "idle"
    /\ bk \in RouterStates
    /\ text' = <<>>
    /\ user_data' = Cleared
    /\ ud' = [NoKeys EXCEPT !.new_ssh = [NoNewSsh EXCEPT !.has = TRUE]]
    /\ bk' = "BK_IMPORT_NEW_SSH_HOST"
    /\ ran' = Did("bk_import_new_start", <<>>, NoFile, <<>>, FALSE)
    /\ UNCHANGED <<backupFrame, local_files, doc, contacted, db_path>>

\* lines 1515-1518: the text is stored under "host" of user_data["new_ssh"];
\* without "new_ssh" the handler raises KeyError
bk_new_ssh_host ==
    /\ pc = "idle"
    /\ bk = "BK_IMPORT_NEW_SSH_HOST"
    /\ \E t \in SshTexts :
          /\ text' = t
          /\ IF ~ud.new_ssh.has
             THEN /\ ran' = Did("bk_new_ssh_host", t, NoFile, <<>>, TRUE)
                  /\ UNCHANGED <<bk, ud>>
             ELSE /\ ran' = Did("bk_new_ssh_host", t, NoFile, <<>>, FALSE)
                  /\ bk' = "BK_IMPORT_NEW_SSH_USER"
                  /\ ud' = [ud EXCEPT !.new_ssh.host = Strip(t)]
    /\ UNCHANGED <<backupFrame, user_data, local_files, doc, contacted, db_path>>

\* lines 1520-1523: the text is stored under "user" of user_data["new_ssh"];
\* without "new_ssh" the handler raises KeyError
bk_new_ssh_user ==
    /\ pc = "idle"
    /\ bk = "BK_IMPORT_NEW_SSH_USER"
    /\ \E t \in SshTexts :
          /\ text' = t
          /\ IF ~ud.new_ssh.has
             THEN /\ ran' = Did("bk_new_ssh_user", t, NoFile, <<>>, TRUE)
                  /\ UNCHANGED <<bk, ud>>
             ELSE /\ ran' = Did("bk_new_ssh_user", t, NoFile, <<>>, FALSE)
                  /\ bk' = "BK_IMPORT_NEW_SSH_PORT"
                  /\ ud' = [ud EXCEPT !.new_ssh.user = Strip(t)]
    /\ UNCHANGED <<backupFrame, user_data, local_files, doc, contacted, db_path>>

\* lines 1525-1535: the port is stored when it is a number of 1..65535
bk_new_ssh_port ==
    /\ pc = "idle"
    /\ bk = "BK_IMPORT_NEW_SSH_PORT"
    /\ \E t \in SshPortTexts :
          /\ text' = t
          /\ IF int(Strip(t)) < 1 \/ int(Strip(t)) > MaxPort
             THEN /\ ran' = Did("bk_new_ssh_port", t, NoFile, <<>>, FALSE)
                  /\ UNCHANGED <<bk, ud>>
             ELSE IF ~ud.new_ssh.has
             THEN /\ ran' = Did("bk_new_ssh_port", t, NoFile, <<>>, TRUE)
                  /\ UNCHANGED <<bk, ud>>
             ELSE /\ ran' = Did("bk_new_ssh_port", t, NoFile, <<>>, FALSE)
                  /\ bk' = "BK_IMPORT_NEW_SSH_PASS"
                  /\ ud' = [ud EXCEPT !.new_ssh.port = int(Strip(t))]
    /\ UNCHANGED <<backupFrame, user_data, local_files, doc, contacted, db_path>>

\* lines 1537-1540: the text is stored under "pass" of user_data["new_ssh"];
\* without "new_ssh" the handler raises KeyError
bk_new_ssh_pass ==
    /\ pc = "idle"
    /\ bk = "BK_IMPORT_NEW_SSH_PASS"
    /\ \E t \in SshTexts :
          /\ text' = t
          /\ IF ~ud.new_ssh.has
             THEN /\ ran' = Did("bk_new_ssh_pass", t, NoFile, <<>>, TRUE)
                  /\ UNCHANGED <<bk, ud>>
             ELSE /\ ran' = Did("bk_new_ssh_pass", t, NoFile, <<>>, FALSE)
                  /\ bk' = "BK_IMPORT_NEW_UPLOAD_FILE"
                  /\ ud' = [ud EXCEPT !.new_ssh.pass = Strip(t)]
    /\ UNCHANGED <<backupFrame, user_data, local_files, doc, contacted, db_path>>

\* lines 1542-1560: a document in BK_IMPORT_NEW_UPLOAD_FILE
bk_new_receive_file ==
    /\ pc = "idle"
    /\ bk = "BK_IMPORT_NEW_UPLOAD_FILE"
    /\ FreeNames # {}
    /\ text' = <<>>
    /\ \E f \in {NewFile("xuihub_restore_new_")} :
          /\ local_files' = local_files \cup {f}
          /\ ud' = [ud EXCEPT !.bk_local_file = f]
          /\ doc' = f
          /\ ran' = Did("bk_new_receive_file", <<>>, f, <<>>, FALSE)
    /\ bk' = "BK_IMPORT_NEW_CONFIRM"
    /\ UNCHANGED <<backupFrame, user_data, contacted, db_path>>

\* lines 1562-1635: a text in BK_IMPORT_NEW_CONFIRM
bk_new_confirm ==
    /\ pc = "idle"
    /\ bk = "BK_IMPORT_NEW_CONFIRM"
    /\ \E t \in RestoreTexts :
          /\ text' = t
          /\ IF ~IsRestore(t)
             THEN /\ ran' = Did("bk_new_confirm", t, ud.bk_local_file, <<>>, FALSE)
                  /\ UNCHANGED <<bk, user_data, ud, local_files, contacted, db_path>>
             ELSE IF \/ ud.new_ssh.host = <<>> \/ ud.new_ssh.user = <<>>
                     \/ ud.new_ssh.port = 0 \/ ud.new_ssh.pass = <<>>
                     \/ ud.bk_local_file = NoFile
                     \/ ud.bk_local_file \notin local_files
             THEN /\ bk' = "END"
                  /\ user_data' = Cleared
                  /\ ud' = NoKeys
                  /\ ran' = Did("bk_new_confirm", t, ud.bk_local_file, <<>>, FALSE)
                  /\ UNCHANGED <<local_files, contacted, db_path>>
             ELSE Restore("bk_new_confirm", t)
    /\ UNCHANGED <<backupFrame, doc>>

NextBackup ==
    \/ backup_menu_entry
    \/ bk_export_start
    \/ bk_export_pick_server
    \/ bk_import_start
    \/ bk_import_existing_choose
    \/ bk_import_pick_server
    \/ bk_import_receive_file
    \/ bk_import_confirm
    \/ bk_import_new_start
    \/ bk_new_ssh_host
    \/ bk_new_ssh_user
    \/ bk_new_ssh_port
    \/ bk_new_ssh_pass
    \/ bk_new_receive_file
    \/ bk_new_confirm
    \/ edit_server
    \/ del_server

SpecBackup == InitBackup /\ [][NextBackup]_vars

----------------------------------------------------------------------------
(* SpecStore: the operator's bucket of store.json under conv_add_server    *)
(* (lines 620-830), the button "del_server:<sid>" (lines 578-585) and      *)
(* conv_edit_server (lines 838-1036). Of a server the model keeps ip,      *)
(* ssh_port and the port of the panel; ssh_host is always written with ip, *)
(* and the other fields are texts no handler looks at                      *)

MaxServers == 2    \* servers the bucket holds at a time

Skip == <<"/", "s", "k", "i", "p">>

\* what the operator may send as the address of a new server, and as the
\* new address of a stored one
IpTexts == {<<" ", "a", " ", "2">>}
NewIpTexts == {<<"a", " ", "2">>}

\* what the operator may send as the ssh port of a new server, as the port
\* of a panel, and as the new ssh port of a stored server
SvPortTexts == {Skip, <<"0">>, <<"x">>}
PanelPortTexts == {<<"2", "2">>, <<"0">>, <<"x">>}
NewPortTexts == {Digits(MaxPort), Digits(MaxPort + 1), <<"x">>, Skip}

\* the characters of [a-zA-Z0-9_.-] (line 48) among those of the model
IdChars == {"a", "2", "_", ".", "-"}

\* the text from its first character of [a-zA-Z0-9_.-] on
RECURSIVE DropRun(_)
DropRun(s) ==
    IF s = <<>> \/ Head(s) \in IdChars THEN s ELSE DropRun(Tail(s))

\* re.sub(r"[^a-zA-Z0-9_.-]+", "_", s) (line 48): every run of other
\* characters becomes one "_"
RECURSIVE Sub(_)
Sub(s) ==
    IF s = <<>> THEN <<>>
    ELSE IF Head(s) \in IdChars THEN <<Head(s)>> \o Sub(Tail(s))
    ELSE <<"_">> \o Sub(DropRun(s))

\* lines 47-49
safe_server_id(ip) ==
    IF Sub(Strip(ip)) = <<>> THEN <<"s", "e", "r", "v", "e", "r">> ELSE Sub(Strip(ip))

\* the id is taken as it is
FirstFreeTaken(base, i, keys) == base

\* lines 703-707 and 808-812: the loop "while sid in bucket["servers"]"
\* from sid = f"{base}_{i}" on
RECURSIVE FirstFree(_, _, _)
FirstFree(base, i, keys) ==
    IF (base \o <<"_">> \o Digits(i)) \in keys
    THEN FirstFree(base, i + 1, keys)
    ELSE base \o <<"_">> \o Digits(i)

\* lines 701-707 and 806-812: the id a new server is stored under
NewSid(ip, keys) ==
    IF safe_server_id(ip) \in keys
    THEN FirstFree(safe_server_id(ip), 2, keys)
    ELSE safe_server_id(ip)

\* lines 709-717 and 814-822: server_obj
ServerObj(s) == [ip |-> s.ip, ssh_port |-> s.ssh_port, panel |-> s.panel]

\* lines 718-720 and 823-825: the entry is written and its id appended
Stored(b, sid, obj) ==
    [servers |-> [k \in DOMAIN b.servers \cup {sid} |->
                     IF k = sid THEN obj ELSE b.servers[k]],
     order |-> Append(b.order, sid)]

\* the entry is deleted and the order kept
DeletedFromServers(b, sid) ==
    [servers |-> [k \in DOMAIN b.servers \ {sid} |-> b.servers[k]], order |-> b.order]

\* lines 581-583
Deleted(b, sid) ==
    [servers |-> [k \in DOMAIN b.servers \ {sid} |-> b.servers[k]],
     order |-> SelectSeq(b.order, LAMBDA x : x # sid)]

\* the entry sid of the bucket with the field changed
Edited(b, sid, field, v) == [b EXCEPT !.servers[sid][field] = v]

\* ensure_panel (lines 926-935) and lines 1015-1016: the panel a server
\* gets when it has none
EnsuredPanel(s) == IF s.panel.has THEN s.panel ELSE APanel

\* accepting every number
InRangeAny(p) == TRUE

\* "1 <= p <= 65535" (lines 677, 768, 948, 956); -1 stands for the
\* ValueError of int()
InRange(p) == 1 <= p /\ p <= MaxPort

\* the states of conv_add_server that take a text (lines 1676-1686)
SvTextStates ==
    {"SV_IP", "SV_SSH_USER", "SV_SSH_PASS", "SV_SSH_PORT", "SV_PANEL_DOMAIN",
     "SV_PANEL_PORT", "SV_PANEL_PATH", "SV_PANEL_USER", "SV_PANEL_PASS"}

\* fields of the buttons "edit_field:<sid>:<field>" (lines 341-357)
EditFields == {"ip", "ssh_port", "panel_port", "panel_remove", "panel_add"}

\* the ids a button may carry: those of the bucket and one that may be gone
ButtonSids == DOMAIN bucket.servers \cup {<<"a", "_", "2">>}

\* what the operator may send for a field
TextsFor(field) ==
    IF field = "ip" THEN NewIpTexts
    ELSE IF field = "ssh_port" THEN NewPortTexts
    ELSE IF field = "panel_port" THEN PanelPortTexts
    ELSE SshTexts

\* what the handlers of the store leave alone
storeFrame ==
    <<serverVars, pc, conv, visited, panel, servers, contacted, fs, sudo, db_path, bk,
      local_files, ran, doc>>

InitStore ==
    /\ hasClients = FALSE
    /\ clients = <<>>
    /\ settings = NoCells
    /\ UsualSchema
    /\ NoCallState
    /\ NoConversation
    /\ NoRun
    /\ db0 = [clients |-> <<>>, settings |-> NoCells]
    /\ fs = {WellKnown[1]}
    /\ sudo = TRUE
    /\ db_path = <<>>
    /\ pc = "idle"

\* lines 620-634: the button "add_server"; conv_add_server allows re-entry
add_server_entry ==
    /\ pc = "idle"
    /\ text' = <<>>
    /\ user_data' = Cleared
    /\ ud' = [NoKeys EXCEPT !.new_server.has = TRUE]
    /\ sv' = "SV_IP"
    /\ UNCHANGED <<storeFrame, bucket, ed>>

\* lines 636-646
sv_ip ==
    /\ pc = "idle"
    /\ sv = "SV_IP"
    /\ \E t \in IpTexts :
          /\ text' = t
          /\ ud' = [ud EXCEPT !.new_server.ip = Strip(t)]
    /\ sv' = "SV_SSH_USER"
    /\ UNCHANGED <<storeFrame, user_data, bucket, ed>>

\* lines 648-656
sv_ssh_user ==
    /\ pc = "idle"
    /\ sv = "SV_SSH_USER"
    /\ text' \in SshTexts
    /\ sv' = "SV_SSH_PASS"
    /\ UNCHANGED <<storeFrame, user_data, ud, bucket, ed>>

\* lines 658-667
sv_ssh_pass ==
    /\ pc = "idle"
    /\ sv = "SV_SSH_PASS"
    /\ text' \in SshTexts
    /\ sv' = "SV_SSH_PORT"
    /\ UNCHANGED <<storeFrame, user_data, ud, bucket, ed>>

\* lines 669-689
sv_ssh_port ==
    /\ pc = "idle"
    /\ sv = "SV_SSH_PORT"
    /\ \E t \in SvPortTexts :
          /\ text' = t
          /\ IF Strip(t) = Skip
             THEN ud' = [ud EXCEPT !.new_server.ssh_port = 22] /\ sv' = "SV_ASK_ADD_PANEL"
             ELSE IF InRange(int(Strip(t)))
             THEN /\ ud' = [ud EXCEPT !.new_server.ssh_port = int(Strip(t))]
                  /\ sv' = "SV_ASK_ADD_PANEL"
             ELSE UNCHANGED <<ud, sv>>
    /\ UNCHANGED <<storeFrame, user_data, bucket, ed>>

\* lines 691-737: the buttons "sv_add_panel:no" and "sv_add_panel:yes"
sv_ask_add_panel_cb ==
    /\ pc = "idle"
    /\ sv = "SV_ASK_ADD_PANEL"
    /\ text' = <<>>
    /\ \E choice \in {"yes", "no"} :
          IF choice = "no"
          THEN /\ Cardinality(DOMAIN bucket.servers) < MaxServers
               /\ bucket' = Stored(bucket,
                                   NewSid(ud.new_server.ip, DOMAIN bucket.servers),
                                   ServerObj(ud.new_server))
               /\ user_data' = Cleared
               /\ ud' = NoKeys
               /\ sv' = "END"
          ELSE /\ sv' = "SV_PANEL_DOMAIN"
               /\ UNCHANGED <<bucket, user_data, ud>>
    /\ UNCHANGED <<storeFrame, ed>>

\* lines 739-749: new_server["panel"] is made
sv_panel_domain ==
    /\ pc = "idle"
    /\ sv = "SV_PANEL_DOMAIN"
    /\ text' \in SshTexts \cup {Skip}
    /\ ud' = [ud EXCEPT !.new_server.panel = APanel]
    /\ sv' = "SV_PANEL_SCHEME"
    /\ UNCHANGED <<storeFrame, user_data, bucket, ed>>

\* lines 751-763: the buttons "sv_scheme:http" and "sv_scheme:https"
sv_panel_scheme_cb ==
    /\ pc = "idle"
    /\ sv = "SV_PANEL_SCHEME"
    /\ text' = <<>>
    /\ sv' = "SV_PANEL_PORT"
    /\ UNCHANGED <<storeFrame, user_data, ud, bucket, ed>>

\* lines 765-783
sv_panel_port ==
    /\ pc = "idle"
    /\ sv = "SV_PANEL_PORT"
    /\ \E t \in PanelPortTexts :
          /\ text' = t
          /\ sv' = IF InRange(int(Strip(t))) THEN "SV_PANEL_PATH" ELSE sv
    /\ UNCHANGED <<storeFrame, user_data, ud, bucket, ed>>

\* lines 785-792
sv_panel_path ==
    /\ pc = "idle"
    /\ sv = "SV_PANEL_PATH"
    /\ text' \in SshTexts
    /\ sv' = "SV_PANEL_USER"
    /\ UNCHANGED <<storeFrame, user_data, ud, bucket, ed>>

\* lines 794-797
sv_panel_user ==
    /\ pc = "idle"
    /\ sv = "SV_PANEL_USER"
    /\ text' \in SshTexts
    /\ sv' = "SV_PANEL_PASS"
    /\ UNCHANGED <<storeFrame, user_data, ud, bucket, ed>>

\* lines 799-830
sv_panel_pass ==
    /\ pc = "idle"
    /\ sv = "SV_PANEL_PASS"
    /\ text' \in SshTexts
    /\ Cardinality(DOMAIN bucket.servers) < MaxServers
    /\ bucket' = Stored(bucket, NewSid(ud.new_server.ip, DOMAIN bucket.servers),
                        ServerObj(ud.new_server))
    /\ user_data' = Cleared
    /\ ud' = NoKeys
    /\ sv' = "END"
    /\ UNCHANGED <<storeFrame, ed>>

\* lines 578-585 of nav_callbacks: the button "del_server:<sid>" on the
\* bucket
DeleteServer ==
    /\ pc = "idle"
    /\ text' = <<>>
    /\ \E sid \in ButtonSids :
          bucket' = IF sid \in DOMAIN bucket.servers THEN Deleted(bucket, sid) ELSE bucket
    /\ UNCHANGED <<storeFrame, user_data, ud, sv, ed>>

\* lines 838-906: the buttons "edit_field:<sid>:<field>"; conv_edit_server
\* allows re-entry. get_inbound_ports (line 857) comes after save_store and
\* raises when the connection cannot be made: the state stays as it is
edit_router_cb ==
    /\ pc = "idle"
    /\ text' = <<>>
    /\ \E sid \in ButtonSids, field \in EditFields :
          IF sid \notin DOMAIN bucket.servers
          THEN ed' = "END" /\ UNCHANGED <<bucket, ud>>
          ELSE IF field = "panel_remove"
          THEN /\ bucket' = Edited(bucket, sid, "panel", NoPanel)
               /\ ed' \in {"EDIT_MENU", ed}
               /\ UNCHANGED ud
          ELSE IF field = "panel_add"
          THEN /\ ud' = [ud EXCEPT !.edit_sid = sid, !.edit_field = "panel_domain"]
               /\ ed' = "EDIT_INPUT"
               /\ UNCHANGED bucket
          ELSE IF field = "panel_scheme"
          THEN /\ ud' = [ud EXCEPT !.edit_sid = sid, !.edit_field = "panel_scheme"]
               /\ ed' = "EDIT_MENU"
               /\ UNCHANGED bucket
          ELSE /\ ud' = [ud EXCEPT !.edit_sid = sid, !.edit_field = field]
               /\ ed' = "EDIT_INPUT"
               /\ UNCHANGED bucket
    /\ UNCHANGED <<storeFrame, user_data, sv>>

\* lines 908-994: a text in EDIT_INPUT, when conv_add_server, which is
\* registered first (line 1691), is not waiting for a text. The value is
\* checked before save_store (line 974); get_inbound_ports comes after it,
\* and the bare except (line 992) answers its exception with EDIT_INPUT
edit_input_msg ==
    /\ pc = "idle"
    /\ ed = "EDIT_INPUT"
    /\ sv \notin SvTextStates
    /\ \E t \in TextsFor(ud.edit_field) :
          /\ text' = t
          /\ IF ud.edit_sid = <<>> \/ ud.edit_field = ""
             THEN ed' = "END" /\ UNCHANGED bucket
             ELSE IF ud.edit_sid \notin DOMAIN bucket.servers
             THEN ed' = "END" /\ UNCHANGED bucket
             ELSE IF ud.edit_field = "ip"
             THEN /\ bucket' = Edited(bucket, ud.edit_sid, "ip", Strip(t))
                  /\ ed' \in {"EDIT_MENU", "EDIT_INPUT"}
             ELSE IF ud.edit_field = "ssh_port"
             THEN \E p \in {IF Strip(t) = Skip THEN 22 ELSE int(Strip(t))} :
                     IF InRange(p)
                     THEN /\ bucket' = Edited(bucket, ud.edit_sid, "ssh_port", p)
                          /\ ed' \in {"EDIT_MENU", "EDIT_INPUT"}
                     ELSE UNCHANGED <<bucket, ed>>
             ELSE IF ud.edit_field = "panel_domain"
             THEN /\ bucket' = Edited(bucket, ud.edit_sid, "panel",
                                      EnsuredPanel(bucket.servers[ud.edit_sid]))
                  /\ ed' \in {"EDIT_MENU", "EDIT_INPUT"}
             ELSE IF ud.edit_field = "panel_port"
             THEN IF InRange(int(Strip(t)))
                  THEN /\ bucket' = Edited(bucket, ud.edit_sid, "panel",
                                           EnsuredPanel(bucket.servers[ud.edit_sid]))
                       /\ ed' \in {"EDIT_MENU", "EDIT_INPUT"}
                  ELSE UNCHANGED <<bucket, ed>>
             ELSE ed' = "END" /\ UNCHANGED bucket
    /\ UNCHANGED <<storeFrame, user_data, ud, sv>>

\* lines 996-1036: the buttons "ed_scheme:http" and "ed_scheme:https" in
\* EDIT_MENU
edit_scheme_cb ==
    /\ pc = "idle"
    /\ ed = "EDIT_MENU"
    /\ text' = <<>>
    /\ IF ud.edit_sid = <<>> \/ ud.edit_sid \notin DOMAIN bucket.servers
       THEN ed' = "END" /\ UNCHANGED bucket
       ELSE /\ bucket' = Edited(bucket, ud.edit_sid, "panel",
                                EnsuredPanel(bucket.servers[ud.edit_sid]))
            /\ ed' = "EDIT_MENU"
    /\ UNCHANGED <<storeFrame, user_data, ud, sv>>

NextStore ==
    \/ add_server_entry
    \/ sv_ip
    \/ sv_ssh_user
    \/ sv_ssh_pass
    \/ sv_ssh_port
    \/ sv_ask_add_panel_cb
    \/ sv_panel_domain
    \/ sv_panel_scheme_cb
    \/ sv_panel_port
    \/ sv_panel_path
    \/ sv_panel_user
    \/ sv_panel_pass
    \/ DeleteServer
    \/ edit_router_cb
    \/ edit_input_msg
    \/ edit_scheme_cb

SpecStore == InitStore /\ [][NextStore]_vars

----------------------------------------------------------------------------
(* What the claims speak of, read off the database *)

\* the clients array stored in a settings cell (empty when there is none)
ClientList(b) == IF b.k = "obj" /\ b.clients.k = "list" THEN b.clients.v ELSE <<>>

\* the rows of a profile
RowsOf(tbl, inb) == SelectSeq(tbl, LAMBDA r : r.inbound_id = inb)

UuidSet(rows) == {rows[i].uuid : i \in DOMAIN rows}

\* the entries a merge put after the old list
Appended(old, new) == SubSeq(new, Len(old) + 1, Len(new))

\* the client lists of the sources, one after the other in the given order
RECURSIVE SourceCat(_, _)
SourceCat(cells, srcs) ==
    IF srcs = <<>> THEN <<>>
    ELSE ClientList(cells[Head(srcs)]) \o SourceCat(cells, Tail(srcs))

HasKey(e, key) == e.k = "dict" /\ client_key(e) = key

\* the keys found among the sources and not in the target
NewKeys(cells, tgt, srcs) == KeysOf(SourceCat(cells, srcs)) \ KeysOf(ClientList(cells[tgt]))

\* the position at which a key first occurs in a list
FirstPos(key, l) ==
    CHOOSE i \in DOMAIN l : HasKey(l[i], key) /\ \A j \in 1..(i - 1) : ~HasKey(l[j], key)

DoneTable == pc = "done" /\ hasClients
DoneJson == pc = "done" /\ ~hasClients

----------------------------------------------------------------------------
(* Claims *)

NoDupUuid(rows) ==
    \A i, j \in DOMAIN rows :
        i # j /\ rows[i].uuid # SqlNull => rows[i].uuid # rows[j].uuid

NoDupKey(l) ==
    \A i, j \in DOMAIN l :
        i # j /\ l[i].k = "dict" /\ l[j].k = "dict" => client_key(l[i]) # client_key(l[j])

\* C1: after a successful merge no two client records of the target share a
\* dedup key (TABLE: the uuid; JSON: client_key), whatever the sources hold;
\* stated here for targets that held no two such records before the merge.
C1_NoSharedKey ==
    /\ DoneTable /\ NoDupUuid(RowsOf(db0.clients, target_id))
          => NoDupUuid(RowsOf(clients, target_id))
    /\ DoneJson /\ NoDupKey(ClientList(db0.settings[target_id]))
          => NoDupKey(ClientList(settings[target_id]))

\* C2: the same merge run again right after it succeeded reports added = 0
\* and leaves the target's clients, and the whole database, as the first run
\* left them (both modes).
C2_Idempotent ==
    pc = "done" /\ calls >= 2 =>
        /\ out.added = 0
        /\ clients = db0.clients
        /\ ClientList(settings[target_id]) = ClientList(db0.settings[target_id])
        /\ settings = db0.settings

C2_Witness == pc = "done" /\ calls = 2 /\ prev.added > 0

\* C3: TABLE mode: after a successful merge the uuid of every source row that
\* was not among the target's uuids before the merge is among them, NULL
\* uuids in the target or in a source included.
C3_TableComplete ==
    DoneTable =>
        \A i \in DOMAIN db0.clients :
            /\ db0.clients[i].inbound_id \in Range(src_ids)
            /\ db0.clients[i].uuid \notin UuidSet(RowsOf(db0.clients, target_id))
            => db0.clients[i].uuid \in UuidSet(RowsOf(clients, target_id))

KeyOnce(key, l) == Cardinality({i \in DOMAIN l : HasKey(l[i], key)}) = 1

AddedIs(n, keys, app) == n = Cardinality(keys) /\ \A key \in keys : KeyOnce(key, app)

\* C4: JSON mode: added is the number of distinct keys that occur among the
\* sources' client records and did not occur among the target's, and each of
\* these keys occurs exactly once among the appended records.
C4_AddedCount ==
    DoneJson =>
        AddedIs(out.added, NewKeys(db0.settings, target_id, src_ids),
                Appended(ClientList(db0.settings[target_id]),
                         ClientList(settings[target_id])))

KeyTwice(keys, cat) ==
    \E i, j \in DOMAIN cat :
        i < j /\ cat[i].k = "dict" /\ client_key(cat[i]) \in keys
              /\ HasKey(cat[j], client_key(cat[i]))

\* a new key that two source records carry
C4_Witness ==
    /\ DoneJson
    /\ KeyTwice(NewKeys(db0.settings, target_id, src_ids),
                SourceCat(db0.settings, src_ids))

\* C5: JSON mode: the target's clients array after the merge starts with the
\* array it held before the merge, entry for entry.
C5_PrefixKept ==
    DoneJson => IsPrefix(ClientList(db0.settings[target_id]),
                         ClientList(settings[target_id]))

C5_Witness ==
    /\ DoneJson
    /\ out.added > 0
    /\ NonDict \in Range(ClientList(db0.settings[target_id]))

InSourceOrder(app, cat) ==
    /\ \A i \in DOMAIN app :
          /\ app[i].k = "dict"
          /\ \E p \in DOMAIN cat : HasKey(cat[p], client_key(app[i]))
          /\ cat[FirstPos(client_key(app[i]), cat)] = app[i]
    /\ \A i, j \in DOMAIN app :
          i < j => FirstPos(client_key(app[i]), cat) < FirstPos(client_key(app[j]), cat)

\* C6: JSON mode: the appended records follow the old ones in the order of
\* their source in the given source list and then of their place in that
\* source's list.
C6_AppendOrder ==
    DoneJson =>
        InSourceOrder(Appended(ClientList(db0.settings[target_id]),
                               ClientList(settings[target_id])),
                      SourceCat(db0.settings, src_ids))

\* two records appended, the first from the first source, the second from
\* the second
C6_Witness ==
    /\ DoneJson
    /\ out.added = 2
    /\ Len(src_ids) = 2
    /\ src_ids[1] # src_ids[2]
    /\ Appended(ClientList(db0.settings[target_id]), ClientList(settings[target_id]))[1]
          \in Range(ClientList(db0.settings[src_ids[1]]))
    /\ Appended(ClientList(db0.settings[target_id]), ClientList(settings[target_id]))[2]
          \in Range(ClientList(db0.settings[src_ids[2]]))
          \ Range(ClientList(db0.settings[src_ids[1]]))

QualifyingCount(tbl, tgt, srcs) ==
    Cardinality({i \in DOMAIN tbl : Qualifies(tbl[i], tbl, tgt, srcs)})

C8_ReadsBeforeWrite ==
    ~hasClients /\ calls > 0 =>
        /\ \A i \in DOMAIN ops :
              ops[i][1] = "write" =>
                  /\ i = Len(ops)
                  /\ ops[i][2] = target_id
                  /\ {target_id} \cup Range(src_ids)
                        \subseteq {ops[j][2] : j \in 1..(i - 1)}
        /\ pc # "done" => settings = db0.settings
        /\ pc = "done" => <<"write", target_id>> \in Range(ops)

\* a call stopped after its UPDATE that would have added a record
C8_Witness ==
    /\ pc = "stopped"
    /\ <<"write", target_id>> \in Range(ops)
    /\ NewKeys(db0.settings, target_id, src_ids) # {}

\* C9: JSON mode: the settings object written back holds every top-level
\* attribute of the target's settings object as it was, clients excepted.
C9_AttributesKept ==
    DoneJson =>
        /\ settings[target_id].k = "obj"
        /\ db0.settings[target_id].k = "obj"
              => settings[target_id].other = db0.settings[target_id].other

C9_Witness ==
    /\ DoneJson
    /\ out.added > 0
    /\ db0.settings[target_id].k = "obj"
    /\ db0.settings[target_id].other # <<>>

\* C10: JSON mode: whatever the settings cells of the target and the sources
\* hold, the merge runs to its end and reports success.
C10_NeverAborts == ~hasClients /\ calls > 0 => pc = "done" /\ out.status = "ok"

----------------------------------------------------------------------------
(* Claims about a whole call (SpecCall) *)

\* merge_confirm has sent its last message
Ended == pc = "ended"

\* the database holds what it held when the call began
DbUntouched == clients = db0.clients /\ settings = db0.settings

\* the script has been neither written to the server nor started
ScriptNotRun == ScriptFile \notin files /\ steps = <<>> /\ out = NoOut /\ code = 0

\* the strategies the script has entered, in order
Modes == SelectSeq(steps, LAMBDA x : x \in {"TABLE", "JSON"})

\* the script has gone past its tool checks
PastTools == "cp" \in Range(steps)

\* the script has issued a write
Wrote == \E i \in DOMAIN steps : steps[i] \in {"insert", "update"}

\* C11: when no inbound listens on the target port, the call ends with the
\* target-not-found message, the database holds what it held and the script
\* has not been run.
C11_TargetNotFound ==
    Ended /\ IdsAt(target_port) = {} =>
        /\ reply = "target_not_found"
        /\ DbUntouched
        /\ ScriptNotRun
        /\ ~restarted

\* a call on a database with clients whose target port has no inbound while
\* its first source port has one
C11_Witness ==
    /\ Ended
    /\ hasInbounds
    /\ IdsAt(target_port) = {}
    /\ IdsAt(src_ports[1]) # {}
    /\ clients # <<>>

\* what C12 asks of a call with a missing source
AllMissingReported ==
    /\ lookups = <<target_port>> \o src_ports
    /\ missing = SelectSeq(src_ports, LAMBDA p : IdsAt(p) = {})
    /\ reply = "ports_not_found"
    /\ DbUntouched
    /\ ScriptNotRun
    /\ ~restarted

\* C12 as stated: whenever a source port has no inbound, every source is
\* looked up, all the missing ones are reported in one message and the
\* database is not changed.
C12_AllMissingReported ==
    Ended /\ (\E i \in DOMAIN src_ports : IdsAt(src_ports[i]) = {}) => AllMissingReported

\* C12 amended: the same, for the calls whose target port has an inbound.
C12_MissingReportedWhenTargetFound ==
    Ended /\ IdsAt(target_port) # {} /\ (\E i \in DOMAIN src_ports : IdsAt(src_ports[i]) = {})
        => AllMissingReported

\* a call with a found target, a found source and a missing source
C12_Witness ==
    /\ Ended
    /\ IdsAt(target_port) # {}
    /\ \E i \in DOMAIN src_ports : IdsAt(src_ports[i]) # {}
    /\ \E i \in DOMAIN src_ports : IdsAt(src_ports[i]) = {}
    /\ Len(missing) = 1
    /\ settings # NoCells

\* C13: a call enters at most one strategy; a call that reaches line 140 and
\* ends has entered exactly one, TABLE when the clients table exists and JSON
\* otherwise; writes are those of the strategy entered.
C13_OneStrategy ==
    /\ Len(Modes) <= 1
    /\ Modes # <<>> => Modes[1] = IF hasClients THEN "TABLE" ELSE "JSON"
    /\ Ended /\ PastTools => Len(Modes) = 1
    /\ \A i \in DOMAIN steps :
          /\ steps[i] = "insert" => Modes = <<"TABLE">>
          /\ steps[i] = "update" => Modes = <<"JSON">>

\* a call whose TABLE strategy has stopped on a schema error
C13_Witness ==
    /\ Ended
    /\ hasClients
    /\ out.status = "ERR_NO_UUID"
    /\ Modes = <<"TABLE">>
    /\ settings_col(inboundsCols) # ""

\* C14: on a database without inbounds table the call ends with an error of
\* its own, which is neither target-not-found nor no-settings-column, and
\* no strategy is entered.
C14_NotAnInboundsDatabase ==
    Ended /\ ~hasInbounds =>
        /\ reply = "not_an_inbounds_database"
        /\ Modes = <<>>

\* C15: a call whose script runs on a database with neither a clients table
\* nor a candidate settings column ends with ERR_NO_SETTINGS_COL and a
\* non-zero exit status (20), with no write issued and the database as it was.
C15_NoSettingsColumn ==
    Ended /\ PastTools /\ ~hasClients /\ settings_col(inboundsCols) = "" =>
        /\ out.status = "ERR_NO_SETTINGS_COL"
        /\ code = 20
        /\ ~Wrote
        /\ DbUntouched
        /\ reply = "error"
        /\ ~restarted

\* such a call, on a database whose inbounds table is there
C15_Witness ==
    /\ Ended
    /\ PastTools
    /\ hasInbounds
    /\ ~hasClients
    /\ inboundsCols = {}
    /\ Modes = <<"JSON">>

\* C16: in TABLE mode, whatever columns the clients table has, a table with
\* no uuid column makes the call end with ERR_NO_UUID and nothing inserted.
C16_NoUuidColumn ==
    Ended /\ Modes = <<"TABLE">> /\ "uuid" \notin clientsCols =>
        /\ out.status = "ERR_NO_UUID"
        /\ ~Wrote
        /\ DbUntouched

\* the call has failed and has issued no write
FailedBeforeApply == Ended /\ reply # "merged" /\ ~Wrote

\* C17: a call that fails before it writes leaves the database as it was
\* and no backup copy on the server (the script file that merge_confirm
\* uploads is not counted).
C17_NoSideEffect == FailedBeforeApply => DbUntouched /\ BackupFile \notin files

\* C18: whenever the script issues a write (TABLE insert or JSON update), the
\* copy of the database file has been attempted earlier in the same run; the
\* database changes only in runs that have attempted it.
C18_BackupBeforeWrite ==
    /\ \A i \in DOMAIN steps :
          steps[i] \in {"insert", "update"} => \E j \in 1..(i - 1) : steps[j] = "cp"
    /\ ~DbUntouched => PastTools

\* a run that has written rows after a copy that failed
C18_Witness ==
    /\ steps = <<"cp", "TABLE", "insert">>
    /\ BackupFile \notin files
    /\ clients # db0.clients

\* what the script, past its tool checks, ends with on the database db with
\* the arguments t and s, told from the schema, the database and the
\* arguments alone
TableOutcome(db, t, s) ==
    IF clientsCols = {}
    THEN out = Failed("ERR_NO_CLIENTS_TABLE", "TABLE") /\ code = 11 /\ clients = db.clients
    ELSE IF "uuid" \notin clientsCols
    THEN out = Failed("ERR_NO_UUID", "TABLE") /\ code = 12 /\ clients = db.clients
    ELSE \/ /\ out = OkTable(CountRows(db.clients, t),
                             CountRows(AfterInsert(db.clients, t, s), t))
            /\ code = 0
            /\ clients = AfterInsert(db.clients, t, s)
         \/ /\ out = Failed("error", "TABLE")
            /\ code = 1
            /\ clients = db.clients

JsonOutcome(r) ==
    IF settings_col(inboundsCols) = ""
    THEN out = Failed("ERR_NO_SETTINGS_COL", "JSON") /\ code = 20 /\ settings = db0.settings
    ELSE /\ settings = r.cells
         /\ out = IF r.raised THEN Failed("exception", "JSON")
                  ELSE OkJson(r.st.added, Len(r.st.tclients))
         /\ code = IF r.raised THEN 1 ELSE 0

\* C19: the outcome of a call whose script got to the backup copy (mode,
\* added, final target rows or settings, exit status) is what the database
\* and the arguments give, whether the copy was made or failed.
C19_BackupNotFatal ==
    Ended /\ PastTools =>
        /\ reply = IF code = 0 THEN "merged" ELSE "error"
        /\ IF hasClients
           THEN TableOutcome(db0, target_id, src_ids) /\ settings = db0.settings
           ELSE JsonOutcome(JsonRun(db0.settings, target_id, src_ids))
                   /\ clients = db0.clients

\* a call that has added clients after a copy that failed
C19_Witness ==
    /\ Ended
    /\ PastTools
    /\ BackupFile \notin files
    /\ out.status = "ok"
    /\ out.added > 0
    /\ reply = "merged"

\* the number of clients of inbound t in the database db
ClientCount(db, t) ==
    IF hasClients THEN CountRows(db.clients, t) ELSE Len(ClientList(db.settings[t]))

\* C20: the result of a successful run carries mode, added, before and
\* after, in TABLE and in JSON mode; before and after are the numbers of
\* clients of the target before and after the call; added = after - before.
C20_ResultLine ==
    Ended /\ out.status = "ok" =>
        /\ {"OK_MODE", "OK_ADDED", "BEFORE", "AFTER"} \subseteq out.fields
        /\ out.mode = IF hasClients THEN "TABLE" ELSE "JSON"
        /\ out.before = ClientCount(db0, target_id)
        /\ out.after = ClientCount([clients |-> clients, settings |-> settings], target_id)
        /\ out.added = out.after - out.before

\* the tagged error lines of the script
ErrTags ==
    {"ERR_NO_SQLITE3", "ERR_NO_PYTHON3", "ERR_NO_CLIENTS_TABLE", "ERR_NO_UUID",
     "ERR_NO_SETTINGS_COL"}

\* C21: every run of the script that ends with a non-zero exit status has
\* printed an ERR_<REASON> line; none ends with an untagged message or an
\* uncaught exception.
C21_TaggedFailure == Ended /\ code # 0 => out.status \in ErrTags

----------------------------------------------------------------------------
(* Claims about client_key (SpecKey) *)

\* attribute a of the record c is there, is a string and is not blank
Identifies(c, a) == DictGet(c.v, a).k = "str" /\ Strip(DictGet(c.v, a).v) # <<>>

HasIdentity(c) == \E i \in DOMAIN KeyAttrs : Identifies(c, KeyAttrs[i])

\* the first of uuid, id, email, password that identifies c, with its value
\* trimmed
PriorityKey(c) ==
    LET i == CHOOSE n \in DOMAIN KeyAttrs :
                 /\ Identifies(c, KeyAttrs[n])
                 /\ \A j \in 1..(n - 1) : ~Identifies(c, KeyAttrs[j])
    IN  <<KeyAttrs[i], Strip(DictGet(c.v, KeyAttrs[i]).v)>>

\* C22: the key of a record is (k, trimmed value of k) for the first k of
\* uuid, id, email, password whose value is there, a string and not blank;
\* earlier attributes that are absent, no string or blank are passed over and
\* no later attribute gives the key.
C22_KeyPriority ==
    pc = "keyed" =>
        /\ \A n \in DOMAIN tclients :
              HasIdentity(tclients[n]) => PriorityKey(tclients[n]) \in existing
        /\ \A k \in existing :
              k[1] # "raw" => \E n \in DOMAIN tclients :
                                 /\ HasIdentity(tclients[n])
                                 /\ k = PriorityKey(tclients[n])

\* a record whose uuid is there but blank and whose email, with blanks around
\* it, gives the key
C22_Witness ==
    /\ pc = "keyed"
    /\ DictGet(tclients[1].v, "uuid") = Str(<<" ">>)
    /\ DictGet(tclients[1].v, "email") = Str(<<" ", "a">>)
    /\ <<"email", <<"a">>>> \in existing

\* the two records map the same attributes to the same values
SameMapping(c, d) == \A a \in AttrNames : DictGet(c.v, a) = DictGet(d.v, a)

\* C23: every record gets a key, the empty record and the records without
\* identity included; a record without identity gets a "raw" key; two records
\* with the same mapping get equal keys whatever the order of their
\* attributes, and two records without identity whose mappings differ get
\* different keys.
C23_KeyTotal ==
    pc = "keyed" =>
        /\ existing # {}
        /\ \A k \in existing : k[1] \in Range(KeyAttrs) \cup {"raw"}
        /\ \A n \in DOMAIN tclients :
              ~HasIdentity(tclients[n]) => \E k \in existing : k[1] = "raw"
        /\ SameMapping(tclients[1], tclients[2]) => Cardinality(existing) = 1
        /\ /\ ~HasIdentity(tclients[1])
           /\ ~HasIdentity(tclients[2])
           /\ ~SameMapping(tclients[1], tclients[2])
           => Cardinality(existing) = 2

\* two records without identity, the same attributes in different orders
C23_Witness ==
    /\ pc = "keyed"
    /\ ~HasIdentity(tclients[1])
    /\ Len(tclients[1].v) > 1
    /\ tclients[2] # tclients[1]
    /\ SameMapping(tclients[1], tclients[2])
    /\ Cardinality(existing) = 1

----------------------------------------------------------------------------
(* More claims about a whole call (SpecCall) *)

\* the rows the call has put after those the table held
InsertedRows == SubSeq(clients, Len(db0.clients) + 1, Len(clients))

\* the row new is the copy of a row of a source, column by column
CopiedFromSource(new) ==
    \E j \in DOMAIN db0.clients :
        /\ db0.clients[j].inbound_id \in Range(src_ids)
        /\ \A c \in clientsCols : new[c] = db0.clients[j][c]

\* C24: every row a TABLE merge has inserted belongs to the target and has,
\* in the columns other than id and inbound_id and in no other column, the
\* values of a row of a source; its id is new.
C24_RowCopy ==
    Ended /\ hasClients /\ out.status = "ok" =>
        \A i \in DOMAIN InsertedRows :
            /\ InsertedRows[i].inbound_id = target_id
            /\ DOMAIN InsertedRows[i] = {"id", "inbound_id"} \cup clientsCols
            /\ CopiedFromSource(InsertedRows[i])
            /\ \A j \in DOMAIN db0.clients : db0.clients[j].id # InsertedRows[i].id

\* a merge that has copied a row of inbound 1 to the target 2
C24_Witness ==
    /\ Ended
    /\ hasClients
    /\ out.status = "ok"
    /\ Len(InsertedRows) = 1
    /\ target_id = 2
    /\ src_ids = <<1>>
    /\ db0.clients[1].inbound_id = 1
    /\ InsertedRows[1].uuid = db0.clients[1].uuid

\* C26: in JSON mode only the settings cell of the target is ever written,
\* the cells of the sources and the clients table stay as they were; in TABLE
\* mode the rows the table held stay as they were, in place, every row added
\* belongs to the target, and no settings cell is written.
C26_OnlyTarget ==
    /\ \A i \in InboundIds \ {target_id} : settings[i] = db0.settings[i]
    /\ IsPrefix(db0.clients, clients)
    /\ \A i \in DOMAIN InsertedRows : InsertedRows[i].inbound_id = target_id
    /\ hasClients => settings = db0.settings
    /\ ~hasClients => clients = db0.clients

\* a JSON merge that has added clients of a source to the target
C26_Witness ==
    /\ Ended
    /\ ~hasClients
    /\ out.added > 0
    /\ settings[target_id] # db0.settings[target_id]
    /\ \E i \in DOMAIN src_ids :
          src_ids[i] # target_id /\ ClientList(settings[src_ids[i]]) # <<>>

----------------------------------------------------------------------------
(* Claims about the database locator (SpecFind) *)

\* C25: the locator uses the first well-known path that exists; it uses the
\* search only when no well-known path exists; it reports NOT_FOUND only when
\* neither finds a file.
C25_WellKnownFirst ==
    pc = "located" =>
        /\ FirstWellKnown(fs, 1) # <<>> => db_path = FirstWellKnown(fs, 1)
        /\ FirstWellKnown(fs, 1) = <<>> /\ Found(fs, sudo) # {} => db_path \in Found(fs, sudo)
        /\ db_path = NotFound <=> FirstWellKnown(fs, 1) = <<>> /\ Found(fs, sudo) = {}

----------------------------------------------------------------------------
(* Claims about the python program beside another writer (SpecRace) *)

\* C27: a client that another writer has committed to the target's settings
\* after the program read them and before it wrote them is in the target's
\* settings when the program has committed.
C27_NoLostUpdate ==
    /\ pc = "done"
    /\ panel # <<>>
    /\ panel[1].id = target_id
    /\ panel[1].at \in {"load_source", "save"}
    => cP \in Range(ClientList(settings[target_id]))

----------------------------------------------------------------------------
(* Claims about the merge conversation (SpecConv) *)

\* the states of conv_merge in the order of the dialogue
InOrder == <<"MERGE_COUNT", "MERGE_PORTS", "MERGE_TARGET", "MERGE_CONFIRM">>

\* the last text is OK, in any case of its letters, blanks around it aside
SaysOk == Strip(text) \in {<<a, b>> : a \in {"o", "O"}, b \in {"k", "K"}}

\* C28: a server is contacted, and the script is sent, only when the
\* conversation has been in MERGE_COUNT, MERGE_PORTS, MERGE_TARGET and
\* MERGE_CONFIRM in this order and the last text was OK in any case of its
\* letters; after any other text the conversation that has reached
\* MERGE_CONFIRM is in MERGE_CONFIRM, no handler is running and no server has
\* been contacted.
C28_ConfirmedFirst ==
    /\ contacted \/ ScriptFile \in files \/ lookups # <<>> =>
          visited = InOrder /\ SaysOk
    /\ visited = InOrder /\ text # <<>> /\ ~SaysOk =>
          conv = "MERGE_CONFIRM" /\ pc = "idle" /\ ~contacted /\ files = {}

\* the script has been sent after an OK that is not spelled "OK"
C28_Witness ==
    /\ ScriptFile \in files
    /\ text = <<" ", "o", "K", " ">>
    /\ conv = "MERGE_CONFIRM"

\* C29: in MERGE_TARGET and MERGE_CONFIRM the session holds the declared
\* count, a number in 1..30, and exactly so many source ports, each in
\* 1..65535.
C29_PortsCollected ==
    conv \in {"MERGE_TARGET", "MERGE_CONFIRM"} =>
        /\ user_data.merge.has
        /\ user_data.merge.count \in 1..MaxCount
        /\ Len(user_data.merge.ports) = user_data.merge.count
        /\ \A i \in DOMAIN user_data.merge.ports : user_data.merge.ports[i] \in 1..MaxPort

\* C30: when merge_confirm has stopped after an OK, the conversation has
\* ended and the session data is cleared.
C30_EndsCleared ==
    pc \in {"ended", "aborted"} => conv = "END" /\ user_data = Cleared

----------------------------------------------------------------------------
(* More claims about a whole call (SpecCall) *)

\* the script has been started and has returned exit status 0
Returned0 ==
    /\ ScriptFile \in files
    /\ pc \in {"exit", "done", "failed", "ended"}
    /\ code = 0

\* C31: the restart has been issued only when the script has returned 0; when
\* merge_confirm has ended after the script returned 0 the restart has been
\* issued; when it has ended after a failed lookup or a non-zero exit status
\* no restart has been issued.
C31_RestartAfterSuccess ==
    /\ restarted => Returned0
    /\ Ended /\ Returned0 => restarted
    /\ Ended /\ (reply \in {"target_not_found", "ports_not_found"} \/ code # 0) => ~restarted

\* a merge that wrote to the database and was followed by the restart
C31_Witness == Ended /\ Wrote /\ code = 0 /\ restarted /\ reply = "merged"

----------------------------------------------------------------------------
(* Claims about the backup conversation (SpecBackup) *)

\* the last text conv_backup handled is "restore" in small or capital
\* letters, spaces around it aside
SaidRestore ==
    Strip(ran.text) \in
        {<<a, b, c, d, e, f, g>> : a \in {"r", "R"}, b \in {"e", "E"}, c \in {"s", "S"},
                                   d \in {"t", "T"}, e \in {"o", "O"}, f \in {"r", "R"},
                                   g \in {"e", "E"}}

ConfirmHandlers == {"bk_import_confirm", "bk_new_confirm"}

\* the last handler of conv_backup ran the command c
Ran(c) == \E i \in DOMAIN ran.cmds : ran.cmds[i].cmd = c

\* C32: the database of a server is overwritten by a restore only by a
\* confirm handler, in its confirm state, on the text RESTORE in any case,
\* with the file a received document was downloaded to; any other text in a
\* confirm state keeps the state and runs nothing on a server; and the
\* copy of the database to the pre-restore path comes before the overwrite
C32_RestoreConfirmed ==
    /\ Ran("cp_db") =>
          /\ ran.handler \in ConfirmHandlers
          /\ ran.state = (IF ran.handler = "bk_import_confirm"
                          THEN "BK_IMPORT_CONFIRM" ELSE "BK_IMPORT_NEW_CONFIRM")
          /\ SaidRestore
          /\ ran.file = doc
          /\ doc.prefix \in {"xuihub_restore_", "xuihub_restore_new_"}
          /\ ran.cmds[1] = Cmd("find", "ok") /\ ran.cmds[2] = Cmd("put", "ok")
    /\ ran.handler \in ConfirmHandlers /\ ~SaidRestore =>
          /\ bk = ran.state
          /\ ran.cmds = <<>>
    /\ \A i \in DOMAIN ran.cmds :
          ran.cmds[i].cmd = "cp_db" => \E j \in 1..(i - 1) : ran.cmds[j].cmd = "cp_old"

C32_Witness ==
    /\ ran.handler = "bk_new_confirm"
    /\ ran.text = <<" ", "R", "e", "s", "t", "o", "r", "e", " ">>
    /\ \E i \in DOMAIN ran.cmds : ran.cmds[i] = Cmd("cp_db", "ok")

\* C33: after RESTORE in a confirm state the conversation has ended, the
\* file the document was downloaded to is gone and the backup keys of the
\* session data are cleared
C33_RestoreEndsClean ==
    ran.handler \in ConfirmHandlers /\ SaidRestore =>
        /\ bk = "END"
        /\ doc \notin local_files
        /\ ud.bk_target_server = 0
        /\ ud.bk_local_file = NoFile
        /\ ud.new_ssh = NoNewSsh

\* C34: when bk_export_pick_server has made the copy on the server, it runs
\* the removal of the copy afterwards, and when it returns its local
\* temporary file is gone
C34_ExportCleansUp ==
    ran.handler = "bk_export_pick_server" =>
        /\ \A i \in DOMAIN ran.cmds :
              ran.cmds[i] = Cmd("cp_tmp", "ok") =>
                  \E j \in (i + 1)..Len(ran.cmds) : ran.cmds[j].cmd = "rm_tmp"
        /\ ~ran.raised => ran.file \notin local_files

----------------------------------------------------------------------------
(* Claims about the store (SpecStore) *)

\* the ids of order, as a set
Ordered == {bucket.order[i] : i \in DOMAIN bucket.order}

\* C35: after any sequence of handlers of the add and edit conversations
\* and of deletions, no id occurs twice in order, and the ids of order are
\* the keys of servers
C35_OrderIsKeys ==
    /\ \A i, j \in DOMAIN bucket.order : i # j => bucket.order[i] # bucket.order[j]
    /\ Ordered = DOMAIN bucket.servers

\* a server was added after one was deleted, one of the two was added with
\* a panel and one had its ssh port edited
C35_Witness ==
    /\ bucket.order = << <<"a", "_", "2", "_", "2">>, <<"a", "_", "2">> >>
    /\ \E k \in DOMAIN bucket.servers : bucket.servers[k].panel.has
    /\ \E k \in DOMAIN bucket.servers : bucket.servers[k].ssh_port = MaxPort

\* a step appends an id to order: a server is added
Adds == Len(bucket'.order) = Len(bucket.order) + 1

\* the id the step has appended
AddedSid == bucket'.order[Len(bucket'.order)]

\* base, "_" and the number i
Suffixed(base, i) == base \o <<"_">> \o Digits(i)

\* the step stores the new entry under the id made from the address, or,
\* when that is a key, under the first of base_2, base_3, ... that is not
NamesFirstFree(base) ==
    \/ AddedSid = base /\ base \notin DOMAIN bucket.servers
    \/ /\ base \in DOMAIN bucket.servers
       /\ \E i \in 2..(Cardinality(DOMAIN bucket.servers) + 2) :
             /\ AddedSid = Suffixed(base, i)
             /\ AddedSid \notin DOMAIN bucket.servers
             /\ \A j \in 2..(i - 1) : Suffixed(base, j) \in DOMAIN bucket.servers

BadPorts == {<<"0">>, <<"6", "5", "5", "3", "6">>, <<"x">>}

\* edit_input_msg is given a text that is no port for the ssh port or the
\* panel port of a stored server
BadPortSent ==
    /\ ed = "EDIT_INPUT"
    /\ sv \notin SvTextStates
    /\ ud.edit_field \in {"ssh_port", "panel_port"}
    /\ ud.edit_sid \in DOMAIN bucket.servers
    /\ text' \in BadPorts

====
